---- MODULE Spec2Model ----
(***************************************************************************)
(* cc_approver: the layered settings files, hook registration (init) and   *)
(* the PreToolUse hook runtime, modelled from src/cc_approver.             *)
(*                                                                         *)
(* JSON values are tagged records, so that the isinstance tests of the     *)
(* code can be evaluated: Null, Num(n), Str(s), List(l), Dict(m), where m  *)
(* is a function from key strings to JSON values.  Key order of a mapping  *)
(* is not modelled.  A settings file holds the JSON value that json.load   *)
(* yields from its text.                                                   *)
(***************************************************************************)
EXTENDS Integers, Sequences, FiniteSets, TLC

VARIABLES
    settings,   \* SpecMerge: the settings mapping merge_pretooluse_hook works on
    pre,        \* SpecMerge: the settings before the first call
    ncalls,     \* SpecMerge: number of merge_pretooluse_hook calls made
    last,       \* SpecMerge: arguments of the most recent call
    allMarker,  \* SpecMerge: every call so far passed a command containing the marker
    raised,     \* SpecMerge: exception raised by the most recent call, "" when it returned
    hist,       \* SpecEnsure: what the ensure_* calls so far were given, per field
    files,      \* the three settings files: path name -> [st, data]
    loaded,     \* what the most recent load_settings_chain returned (or raised)
    nruns,      \* SpecInit: number of init runs made
    lastInit,   \* SpecInit: the flags of the most recent init run
    initExc,    \* SpecInit: exception that ended the most recent init run, "" when it completed
    stdin,      \* SpecHook: what the hook run reads from standard input
    hookArgs,   \* SpecHook: the command-line flags of the hook run
    models,     \* SpecHook: the compiled-program files, path -> kind of content
    transcripts,\* SpecHook: the transcript files, path -> [st, bytes]
    hpc,        \* SpecHook: where the hook run is
    hk,         \* SpecHook: the local variables of cmd_hook
    stdout,     \* SpecHook: the JSON documents printed so far
    progCalls,  \* SpecHook: number of calls of the decision program
    herr,       \* SpecHook: stage and exception of the crash, if any
    wr,         \* SpecRace: the init run that writes a settings file, and where it is
    rd,         \* SpecRace: the hook run that reads the settings files, and where it is
    tcase,      \* SpecTail: the transcript files, the path, the byte budget and the record
    tres,       \* SpecTail: what tail and _read_history returned for tcase
    opt,        \* SpecOptimize: the local variables of the optimize run, and where it is
    optFiles,   \* SpecOptimize: the training file (its lines) and the file at the save path
    merged      \* SpecPolicy: the global and local settings and the merged policy text

mergeVars == <<settings, pre, ncalls, last, allMarker, raised, hist>>
fileVars == <<files, loaded>>
initVars == <<nruns, lastInit, initExc>>
hookVars == <<stdin, hookArgs, models, transcripts, hpc, hk, stdout, progCalls, herr>>
raceVars == <<wr, rd>>
tailVars == <<tcase, tres>>
optVars == <<opt, optFiles>>
policyVars == <<merged>>
vars == <<mergeVars, fileVars, initVars, hookVars, raceVars, tailVars, optVars, policyVars>>

\* ------------------------------------------------------------------ bounds

MaxGroups == 2      \* longest PreToolUse list drawn as an initial list
MaxCalls == 2       \* most merge_pretooluse_hook calls in one behaviour
MaxRuns == 2        \* most init runs in one behaviour
MaxEnsures == 3     \* most ensure_policy_text / ensure_dspy_config calls in one behaviour

\* ------------------------------------------------------------- JSON values

Null == [t |-> "null"]
Num(n) == [t |-> "num", n |-> n]
Str(s) == [t |-> "str", s |-> s]
List(l) == [t |-> "list", l |-> l]
Dict(m) == [t |-> "dict", m |-> m]
EmptyMap == [k \in {} |-> Null]

\* isinstance(v, dict)
IsDict(v) == v.t = "dict"
\* isinstance(v, str)
IsStr(v) == v.t = "str"

\* Python truth value of a JSON value (the `x or default` idiom)
Truthy(v) ==
    CASE v.t = "null" -> FALSE
      [] v.t = "num" -> v.n # 0
      [] v.t = "str" -> v.s # ""
      [] v.t = "list" -> v.l # <<>>
      [] v.t = "dict" -> DOMAIN v.m # {}

\* d.get(k, dflt)
Get(d, k, dflt) == IF k \in DOMAIN d.m THEN d.m[k] ELSE dflt
\* d[k] = v
Put(d, k, v) == Dict([x \in DOMAIN d.m \cup {k} |-> IF x = k THEN v ELSE d.m[x]])
\* d.setdefault(k, v): the mapping afterwards (the value is then d.m[k])
SetDefault(d, k, v) == IF k \in DOMAIN d.m THEN d ELSE Put(d, k, v)

Min(S) == CHOOSE x \in S : \A y \in S : x <= y

\* ----------------------------------------------------------------- strings
\* TLA+ strings are atomic; Spell gives the characters of every command
\* string the model uses, so that `"cc-approver" in str(command)` is computed.

CmdHook == "cc-approver hook"
CmdOld == "cc-approver old"
CmdStandalone == "$CLAUDE_PROJECT_DIR/.claude/hooks/cc_approver_hook.py"
CmdEcho == "echo 'Running bash'"
CmdBackup == "backup-file"

\* the characters of "$CLAUDE_PROJECT_DIR", of the project directory (/p in
\* the model), of the home directory (/h) and of the path below either one
\* where a compiled program is kept
ProjectDirVar == <<"$","C","L","A","U","D","E","_","P","R","O","J","E","C","T","_","D","I","R">>
ProjectDir == <<"/","p">>
HomeDir == <<"/","h">>
ModelsSuffix == <<"/",".","c","l","a","u","d","e","/","m","o","d","e","l","s","/","a","p","p","r","o","v","e","r",".","c","o","m","p","i","l","e","d",".","j","s","o","n">>

Spell ==
    (CmdHook :> <<"c","c","-","a","p","p","r","o","v","e","r"," ","h","o","o","k">>)
 @@ (CmdOld :> <<"c","c","-","a","p","p","r","o","v","e","r"," ","o","l","d">>)
 @@ (CmdStandalone :> <<"$","C","L","A","U","D","E","_","P","R","O","J","E","C","T","_","D","I","R",
                        "/",".","c","l","a","u","d","e","/","h","o","o","k","s","/",
                        "c","c","_","a","p","p","r","o","v","e","r","_","h","o","o","k",".","p","y">>)
 @@ (CmdEcho :> <<"e","c","h","o"," ","'","R","u","n","n","i","n","g"," ","b","a","s","h","'">>)
 @@ (CmdBackup :> <<"b","a","c","k","u","p","-","f","i","l","e">>)
 @@ ("$CLAUDE_PROJECT_DIR/.claude/models/approver.compiled.json" :> ProjectDirVar \o ModelsSuffix)
 @@ ("/h/.claude/models/approver.compiled.json" :> HomeDir \o ModelsSuffix)
 @@ ("~/approver.json" :> <<"~","/","a","p","p","r","o","v","e","r",".","j","s","o","n">>)
 @@ ("/opt/approver.json" :> <<"/","o","p","t","/","a","p","p","r","o","v","e","r",".","j","s","o","n">>)
 @@ ("100" :> <<"1","0","0">>)
 @@ (" 7 " :> <<" ","7"," ">>)
 @@ ("lots" :> <<"l","o","t","s">>)
 @@ ("allow" :> <<"a","l","l","o","w">>)
 @@ ("deny" :> <<"d","e","n","y">>)
 @@ ("ask" :> <<"a","s","k">>)
 @@ ("maybe" :> <<"m","a","y","b","e">>)
 @@ ("deny rm" :> <<"d","e","n","y"," ","r","m">>)
 @@ ("allow git" :> <<"a","l","l","o","w"," ","g","i","t">>)
 @@ ("old rules" :> <<"o","l","d"," ","r","u","l","e","s">>)
 @@ (" Allow " :> <<" ","A","l","l","o","w"," ">>)
 @@ ("DENY\n" :> <<"D","E","N","Y","\n">>)
 @@ ("" :> <<>>)

\* the marker of line 70: "cc-approver"
MARKER == <<"c","c","-","a","p","p","r","o","v","e","r">>

\* needle in hay (Python substring test)
Contains(hay, needle) ==
    \E i \in 0..(Len(hay) - Len(needle)) : SubSeq(hay, i + 1, i + Len(needle)) = needle

\* str(v) for the values a "command" holds in the model: a string is itself,
\* None prints as "None"
PyStr(v) ==
    CASE v.t = "str" -> Spell[v.s]
      [] v.t = "null" -> <<"N","o","n","e">>

\* ------------------------------------------------------------- validators
\* Text the decision call returns is a sequence of characters, so that strip
\* and lower are computed; PyNone is Python's None.

PyNone == [none |-> TRUE, s |-> <<>>]
PyText(s) == [none |-> FALSE, s |-> s]

\* x or ""
OrEmpty(x) == IF x.none THEN <<>> ELSE x.s

Whitespace == {" ", "\t", "\n", "\r"}

RECURSIVE LStrip(_)
LStrip(s) == IF s # <<>> /\ Head(s) \in Whitespace THEN LStrip(Tail(s)) ELSE s
RECURSIVE RStrip(_)
RStrip(s) == IF s # <<>> /\ s[Len(s)] \in Whitespace THEN RStrip(SubSeq(s, 1, Len(s) - 1)) ELSE s
\* str.strip()
Strip(s) == RStrip(LStrip(s))

LowerOf ==
    [c \in {"A","B","C","D","E","F","G","H","I","J","K","L","M",
            "N","O","P","Q","R","S","T","U","V","W","X","Y","Z"} |->
       CASE c = "A" -> "a" [] c = "B" -> "b" [] c = "C" -> "c" [] c = "D" -> "d"
         [] c = "E" -> "e" [] c = "F" -> "f" [] c = "G" -> "g" [] c = "H" -> "h"
         [] c = "I" -> "i" [] c = "J" -> "j" [] c = "K" -> "k" [] c = "L" -> "l"
         [] c = "M" -> "m" [] c = "N" -> "n" [] c = "O" -> "o" [] c = "P" -> "p"
         [] c = "Q" -> "q" [] c = "R" -> "r" [] c = "S" -> "s" [] c = "T" -> "t"
         [] c = "U" -> "u" [] c = "V" -> "v" [] c = "W" -> "w" [] c = "X" -> "x"
         [] c = "Y" -> "y" [] c = "Z" -> "z"]
\* str.lower()
Lower(s) == [i \in 1..Len(s) |-> IF s[i] \in DOMAIN LowerOf THEN LowerOf[s[i]] ELSE s[i]]

Allow == <<"a","l","l","o","w">>
Deny == <<"d","e","n","y">>
Ask == <<"a","s","k">>
VALID_DECISIONS == {Allow, Deny, Ask}
DEFAULT_DECISION == Ask
MAX_REASON_LENGTH == 500
HOOK_EVENT_NAME == "PreToolUse"

\* normalize_decision without the membership test
normalize_decision_Unchecked(decision) == Lower(Strip(OrEmpty(decision)))

\* validators.py lines 14-15
normalize_decision(decision) ==
    LET normalized == Lower(Strip(OrEmpty(decision)))
    IN IF normalized \in VALID_DECISIONS THEN normalized ELSE DEFAULT_DECISION

\* truncate_reason without the slice
truncate_reason_Uncut(reason) == OrEmpty(reason)

\* validators.py line 60: (reason or "")[:MAX_REASON_LENGTH]
truncate_reason(reason) ==
    LET r == OrEmpty(reason)
    IN SubSeq(r, 1, IF Len(r) < MAX_REASON_LENGTH THEN Len(r) ELSE MAX_REASON_LENGTH)

\* --------------------------------------------------- merge_pretooluse_hook

Returned(s) == [exc |-> "", settings |-> s]
Raised(s, e) == [exc |-> e, settings |-> s]

\* line 70: isinstance(spec, dict) and "cc-approver" in str(spec.get("command",""))
IsMarkerSpec(spec) == IsDict(spec) /\ Contains(PyStr(Get(spec, "command", Str(""))), MARKER)

\* line 69: h.get("hooks") or []
InnerHooks(h) == LET v == Get(h, "hooks", Null) IN IF Truthy(v) THEN v ELSE List(<<>>)

\* GroupScan without the isinstance(h, dict) test of line 68: h.get raises on
\* an entry that is no mapping
GroupScan_NoIsinstance(h) ==
    IF ~IsDict(h) THEN [kind |-> "raise", j |-> 0]
    ELSE LET it == InnerHooks(h) IN
         CASE it.t = "list" ->
                LET hits == {j \in 1..Len(it.l) : IsMarkerSpec(it.l[j])}
                IN IF hits = {} THEN [kind |-> "skip", j |-> 0]
                   ELSE [kind |-> "hit", j |-> Min(hits)]
           [] it.t \in {"str", "dict"} -> [kind |-> "skip", j |-> 0]
           [] OTHER -> [kind |-> "raise", j |-> 0]

\* lines 68-70 for one entry h of the list: "skip" when the loops pass over
\* it, "hit" with the index of the first marker entry, "raise" when iterating
\* h["hooks"] raises TypeError (a truthy value that is not iterable)
GroupScan(h) ==
    IF ~IsDict(h) THEN [kind |-> "skip", j |-> 0]
    ELSE LET it == InnerHooks(h) IN
         CASE it.t = "list" ->
                LET hits == {j \in 1..Len(it.l) : IsMarkerSpec(it.l[j])}
                IN IF hits = {} THEN [kind |-> "skip", j |-> 0]
                   ELSE [kind |-> "hit", j |-> Min(hits)]
           [] it.t \in {"str", "dict"} -> [kind |-> "skip", j |-> 0]
           [] OTHER -> [kind |-> "raise", j |-> 0]

\* line 71 carried out for every inner entry that holds the marker, not only
\* for the first one
UpdateGroup_AllMarkers(h, j, command, matcher, timeout) ==
    LET inner == h.m["hooks"].l
    IN Put(Put(h, "matcher", Str(matcher)),
           "hooks", List([x \in 1..Len(inner) |->
                            IF IsMarkerSpec(inner[x])
                            THEN Put(Put(inner[x], "command", Str(command)), "timeout", Num(timeout))
                            ELSE inner[x]]))

\* line 71: h["matcher"] = matcher; spec["command"] = command; spec["timeout"] = timeout
UpdateGroup(h, j, command, matcher, timeout) ==
    LET inner == h.m["hooks"].l
        spec == Put(Put(inner[j], "command", Str(command)), "timeout", Num(timeout))
    IN Put(Put(h, "matcher", Str(matcher)),
           "hooks", List([x \in 1..Len(inner) |-> IF x = j THEN spec ELSE inner[x]]))

\* line 73: the appended group
NewGroup(command, matcher, timeout) ==
    Dict([matcher |-> Str(matcher),
          hooks |-> List(<<Dict([type |-> Str("command"), command |-> Str(command),
                                 timeout |-> Num(timeout)])>>)])

\* MergeList without the scan: the group is appended on every call
MergeList_AlwaysAppend(lst, command, matcher, timeout) ==
    [exc |-> "", lst |-> Append(lst, NewGroup(command, matcher, timeout))]

\* MergeList with h["matcher"] = matcher executed for every group the scan
\* visits, not only for the group that holds the marker
MergeList_MatcherOnAll(lst, command, matcher, timeout) ==
    LET decided == {i \in 1..Len(lst) : GroupScan(lst[i]).kind # "skip"}
        stop == IF decided = {} THEN Len(lst) ELSE Min(decided)
        touched == [x \in 1..Len(lst) |->
                      IF x <= stop /\ IsDict(lst[x]) THEN Put(lst[x], "matcher", Str(matcher))
                      ELSE lst[x]]
    IN IF decided = {} THEN [exc |-> "", lst |-> Append(touched, NewGroup(command, matcher, timeout))]
       ELSE LET i == Min(decided)
                r == GroupScan(lst[i])
            IN IF r.kind = "raise" THEN [exc |-> "TypeError", lst |-> touched]
               ELSE [exc |-> "",
                     lst |-> [x \in 1..Len(lst) |->
                                 IF x = i THEN UpdateGroup(lst[i], r.j, command, matcher, timeout)
                                 ELSE touched[x]]]

\* lines 67-73 on the PreToolUse list lst (a sequence of JSON values)
MergeList(lst, command, matcher, timeout) ==
    LET decided == {i \in 1..Len(lst) : GroupScan(lst[i]).kind # "skip"}
    IN IF decided = {} THEN [exc |-> "", lst |-> Append(lst, NewGroup(command, matcher, timeout))]
       ELSE LET i == Min(decided)
                r == GroupScan(lst[i])
            IN IF r.kind = "raise" THEN [exc |-> "TypeError", lst |-> lst]
               ELSE [exc |-> "",
                     lst |-> [x \in 1..Len(lst) |->
                                 IF x = i THEN UpdateGroup(lst[i], r.j, command, matcher, timeout)
                                 ELSE lst[x]]]

merge_pretooluse_hook(s, command, matcher, timeout) ==
    LET s1 == SetDefault(s, "hooks", Dict(EmptyMap))
        hooks == s1.m["hooks"]
    IN IF ~IsDict(hooks) THEN Raised(s1, "AttributeError")
       ELSE LET h1 == SetDefault(hooks, "PreToolUse", List(<<>>))
                lst == h1.m["PreToolUse"]
                s2 == Put(s1, "hooks", h1)
            IN IF lst.t \notin {"list", "str", "dict"} THEN Raised(s2, "TypeError")
               ELSE IF lst.t # "list" THEN Raised(s2, "AttributeError")
               ELSE LET r == MergeList(lst.l, command, matcher, timeout)
                    IN IF r.exc # "" THEN Raised(s2, r.exc)
                       ELSE Returned(Put(s2, "hooks", Put(h1, "PreToolUse", List(r.lst))))

\* ---------------------------------------------------------- settings files
\* A file is [st, data]: st is "missing", "unreadable" (open raises an
\* OSError), "badutf8" (bytes that do not decode), "notjson" (text json.load
\* rejects) or "json", and data is then the JSON value of the text.

\* settings_paths: <project>/.claude/settings.local.json,
\* <project>/.claude/settings.json, <home>/.claude/settings.json
settings_paths_SharedFirst == <<"shared", "local", "global">>
settings_paths == <<"local", "shared", "global">>

\* _read_json: the value json.load yields; None (Null) for the exceptions
\* line 16 catches; UnicodeDecodeError is none of them
read_json(f) ==
    CASE f.st = "missing" -> [exc |-> "", val |-> Null]
      [] f.st = "unreadable" -> [exc |-> "", val |-> Null]
      [] f.st = "notjson" -> [exc |-> "", val |-> Null]
      [] f.st = "badutf8" -> [exc |-> "UnicodeDecodeError", val |-> Null]
      [] f.st = "json" -> [exc |-> "", val |-> f.data]

\* lines 33-37, from the i-th path on; reads lists the paths opened so far
RECURSIVE chain_from(_, _, _)
chain_from(fs, i, reads) ==
    IF i > Len(settings_paths)
    THEN [exc |-> "", settings |-> Dict(EmptyMap), path |-> settings_paths[2], reads |-> reads]
    ELSE LET p == settings_paths[i]
             d == read_json(fs[p])
         IN IF d.exc # ""
            THEN [exc |-> d.exc, settings |-> Null, path |-> "", reads |-> Append(reads, p)]
            ELSE IF IsDict(d.val)
            THEN [exc |-> "", settings |-> d.val, path |-> p, reads |-> Append(reads, p)]
            ELSE chain_from(fs, i + 1, Append(reads, p))

\* the dspyApprover sections of all files that hold a mapping, merged key by
\* key with the file of higher precedence winning
DspyLayers(fs) ==
    {i \in 1..Len(settings_paths) :
        /\ fs[settings_paths[i]].st = "json"
        /\ IsDict(fs[settings_paths[i]].data)
        /\ IsDict(Get(fs[settings_paths[i]].data, "dspyApprover", Null))}
DspyOf(fs, i) == fs[settings_paths[i]].data.m["dspyApprover"].m
MergedDspy(fs) ==
    [k \in UNION {DOMAIN DspyOf(fs, i) : i \in DspyLayers(fs)} |->
        DspyOf(fs, Min({i \in DspyLayers(fs) : k \in DOMAIN DspyOf(fs, i)}))[k]]

\* load_settings_chain with a deep merge of dspyApprover across the files
load_settings_chain_DeepMerge(fs) ==
    LET r == chain_from(fs, 1, <<>>)
    IN IF r.exc # "" \/ DspyLayers(fs) = {} THEN r
       ELSE [r EXCEPT !.settings = Put(r.settings, "dspyApprover", Dict(MergedDspy(fs)))]

\* settings.py lines 32-37
load_settings_chain(fs) == chain_from(fs, 1, <<>>)

\* write_settings / _write_json: the file at path then holds the mapping
write_settings(fs, s, path) == [fs EXCEPT ![path] = [st |-> "json", data |-> s]]

\* ------------------------------------------------------------------- init

\* ensure_policy_text that stores a fresh policy section
ensure_policy_text_FreshSection(s, default_text) ==
    Returned(Put(s, "policy", Dict([approverInstructions |-> Str(default_text)])))

\* ensure_policy_text that takes an empty string for an absent field
ensure_policy_text_Truthy(s, default_text) ==
    LET s1 == SetDefault(s, "policy", Dict(EmptyMap))
        pol == s1.m["policy"]
    IN IF ~IsDict(pol) THEN Raised(s1, "AttributeError")
       ELSE IF ~IsStr(Get(pol, "approverInstructions", Null))
               \/ ~Truthy(Get(pol, "approverInstructions", Null))
       THEN Returned(Put(s1, "policy", Put(pol, "approverInstructions", Str(default_text))))
       ELSE Returned(s1)

\* settings.py lines 39-43; pol.get raises AttributeError when "policy" holds
\* a value that is no mapping
ensure_policy_text(s, default_text) ==
    LET s1 == SetDefault(s, "policy", Dict(EmptyMap))
        pol == s1.m["policy"]
    IN IF ~IsDict(pol) THEN Raised(s1, "AttributeError")
       ELSE IF ~IsStr(Get(pol, "approverInstructions", Null))
       THEN Returned(Put(s1, "policy", Put(pol, "approverInstructions", Str(default_text))))
       ELSE Returned(s1)

\* ensure_dspy_config that stores every value it is given
ensure_dspy_config_Overwrite(s, model, history_bytes, compiled_path, optimizer, auto, prompt_model, eval_model, reflection_model) ==
    LET s1 == SetDefault(s, "dspyApprover", Dict(EmptyMap))
        cfg == s1.m["dspyApprover"]
    IN IF ~IsDict(cfg) THEN Raised(s1, "AttributeError")
       ELSE LET c1 == Put(cfg, "model", Str(model))
                c2 == Put(c1, "historyBytes", Num(history_bytes))
                c3 == Put(c2, "compiledModelPath", Str(compiled_path))
                c4 == Put(c3, "optimizer", Str(optimizer))
                c5 == Put(c4, "auto", Str(auto))
                c6 == Put(c5, "promptModel", prompt_model)
                c7 == Put(c6, "evalModel", eval_model)
                c8 == Put(c7, "reflectionModel", reflection_model)
            IN Returned(Put(s1, "dspyApprover", c8))

\* settings.py lines 45-61; prompt_model, eval_model and reflection_model are
\* Null (None) or a string value
ensure_dspy_config(s, model, history_bytes, compiled_path, optimizer, auto, prompt_model, eval_model, reflection_model) ==
    LET s1 == SetDefault(s, "dspyApprover", Dict(EmptyMap))
        cfg == s1.m["dspyApprover"]
    IN IF ~IsDict(cfg) THEN Raised(s1, "AttributeError")
       ELSE LET c1 == SetDefault(cfg, "model", Str(model))
                c2 == SetDefault(c1, "historyBytes", Num(history_bytes))
                c3 == SetDefault(c2, "compiledModelPath", Str(compiled_path))
                c4 == SetDefault(c3, "optimizer", Str(optimizer))
                c5 == SetDefault(c4, "auto", Str(auto))
                c6 == IF prompt_model # Null THEN Put(c5, "promptModel", prompt_model) ELSE c5
                c7 == IF eval_model # Null THEN Put(c6, "evalModel", eval_model) ELSE c6
                c8 == IF reflection_model # Null THEN Put(c7, "reflectionModel", reflection_model)
                      ELSE c7
            IN Returned(Put(s1, "dspyApprover", c8))

\* line 84-85; the home directory is /h in the model
CompiledProject == "$CLAUDE_PROJECT_DIR/.claude/models/approver.compiled.json"
CompiledGlobal == "/h/.claude/models/approver.compiled.json"

\* cli.py lines 80-103 on the files fs with the flags a; copyOk says whether
\* copying hook_template.py (line 91) succeeds.  The result holds the files
\* afterwards, what load_settings_chain returned and the exception, if any.
run_init(fs, a, copyOk) ==
    LET ld == load_settings_chain(fs)
        compiled_path == IF a.scope = "project" THEN CompiledProject ELSE CompiledGlobal
        command == IF a.standalone THEN CmdStandalone ELSE CmdHook
    IN IF ld.exc # "" THEN [exc |-> ld.exc, files |-> fs, loaded |-> ld]
       ELSE IF a.standalone /\ ~copyOk THEN [exc |-> "FileNotFoundError", files |-> fs, loaded |-> ld]
       ELSE LET r1 == ensure_policy_text(ld.settings, a.policy_text)
            IN IF r1.exc # "" THEN [exc |-> r1.exc, files |-> fs, loaded |-> ld]
               ELSE LET r2 == ensure_dspy_config(r1.settings, a.model, a.history_bytes,
                                                 compiled_path, "mipro", "light",
                                                 a.prompt_model, a.eval_model, a.reflection_model)
                    IN IF r2.exc # "" THEN [exc |-> r2.exc, files |-> fs, loaded |-> ld]
                       ELSE LET r3 == merge_pretooluse_hook(r2.settings, command, a.matcher, a.timeout)
                            IN IF r3.exc # "" THEN [exc |-> r3.exc, files |-> fs, loaded |-> ld]
                               ELSE [exc |-> "",
                                     files |-> write_settings(fs, r3.settings, ld.path),
                                     loaded |-> ld]

\* ----------------------------------------------------------- hook runtime

DEFAULT_MODEL == "openrouter/google/gemini-2.5-flash-lite"
DEFAULT_HISTORY_BYTES == 0
DEFAULT_COMPILED_PATH == CompiledProject

\* get_policy_text that returns whatever approverInstructions holds, printed
get_policy_text_Unchecked(s) ==
    LET p0 == Get(s, "policy", Null)
        pol == IF Truthy(p0) THEN p0 ELSE Dict(EmptyMap)
    IN IF ~IsDict(pol) THEN [exc |-> "AttributeError", text |-> ""]
       ELSE LET t == Get(pol, "approverInstructions", Null)
            IN [exc |-> "", text |-> IF IsStr(t) THEN t.s ELSE "None"]

\* settings.py lines 76-79; pol.get raises AttributeError when "policy" holds
\* a truthy value that is no mapping
get_policy_text(s) ==
    LET p0 == Get(s, "policy", Null)
        pol == IF Truthy(p0) THEN p0 ELSE Dict(EmptyMap)
    IN IF ~IsDict(pol) THEN [exc |-> "AttributeError", text |-> ""]
       ELSE LET t == Get(pol, "approverInstructions", Null)
            IN [exc |-> "", text |-> IF IsStr(t) THEN t.s ELSE ""]

\* str.replace(old, new) on character sequences, old not empty
RECURSIVE Replace(_, _, _)
Replace(s, old, new) ==
    IF Len(s) < Len(old) THEN s
    ELSE IF SubSeq(s, 1, Len(old)) = old
    THEN new \o Replace(SubSeq(s, Len(old) + 1, Len(s)), old, new)
    ELSE <<Head(s)>> \o Replace(Tail(s), old, new)

\* settings.py lines 81-83 with the project directory as root
resolve(s) == Replace(s, ProjectDirVar, ProjectDir)

DigitVal ==
    [c \in {"0","1","2","3","4","5","6","7","8","9"} |->
       CASE c = "0" -> 0 [] c = "1" -> 1 [] c = "2" -> 2 [] c = "3" -> 3 [] c = "4" -> 4
         [] c = "5" -> 5 [] c = "6" -> 6 [] c = "7" -> 7 [] c = "8" -> 8 [] c = "9" -> 9]

RECURSIVE DigitsValue(_)
DigitsValue(ds) ==
    IF ds = <<>> THEN 0 ELSE 10 * DigitsValue(SubSeq(ds, 1, Len(ds) - 1)) + DigitVal[ds[Len(ds)]]

\* int(v) for a truthy JSON value: a number is itself, a string of decimal
\* digits (blanks around it allowed) is parsed, any other string raises
\* ValueError, a list or mapping raises TypeError
PyInt(v) ==
    CASE v.t = "num" -> [exc |-> "", n |-> v.n]
      [] v.t = "str" ->
           LET ds == Strip(Spell[v.s])
           IN IF ds # <<>> /\ \A i \in 1..Len(ds) : ds[i] \in DOMAIN DigitVal
              THEN [exc |-> "", n |-> DigitsValue(ds)]
              ELSE [exc |-> "ValueError", n |-> 0]
      [] OTHER -> [exc |-> "TypeError", n |-> 0]

NoCfg == [model |-> Null, historyBytes |-> 0, compiledModelPath |-> <<>>,
          promptModel |-> Null, evalModel |-> Null, reflectionModel |-> Null]

\* settings.py lines 85-98
get_dspy_config(s) ==
    LET c0 == Get(s, "dspyApprover", Null)
        cfg == IF Truthy(c0) THEN c0 ELSE Dict(EmptyMap)
    IN IF ~IsDict(cfg) THEN [exc |-> "AttributeError", cfg |-> NoCfg]
       ELSE LET m0 == Get(cfg, "model", Null)
                model == IF Truthy(m0) THEN m0 ELSE Str(DEFAULT_MODEL)
                h0 == Get(cfg, "historyBytes", Null)
                hbytes == PyInt(IF Truthy(h0) THEN h0 ELSE Num(DEFAULT_HISTORY_BYTES))
                p0 == Get(cfg, "compiledModelPath", Null)
                cmp_raw == IF Truthy(p0) THEN p0 ELSE Str(DEFAULT_COMPILED_PATH)
            IN IF hbytes.exc # "" THEN [exc |-> hbytes.exc, cfg |-> NoCfg]
               ELSE IF ~IsStr(cmp_raw) THEN [exc |-> "AttributeError", cfg |-> NoCfg]
               ELSE [exc |-> "",
                     cfg |-> [model |-> model,
                              historyBytes |-> hbytes.n,
                              compiledModelPath |-> resolve(Spell[cmp_raw.s]),
                              promptModel |-> Get(cfg, "promptModel", Null),
                              evalModel |-> Get(cfg, "evalModel", Null),
                              reflectionModel |-> Get(cfg, "reflectionModel", Null)]]

\* Path(p).expanduser(): a leading "~" stands for the home directory
expanduser(p) ==
    IF p # <<>> /\ Head(p) = "~" /\ (Len(p) = 1 \/ p[2] = "/")
    THEN HomeDir \o Tail(p)
    ELSE p

\* cli.py lines 163-165
candidates(cfg) == <<cfg.compiledModelPath, ProjectDir \o ModelsSuffix, HomeDir \o ModelsSuffix>>

\* what the file at path q is, given the compiled-program files ms: "missing",
\* "ok" (a saved program), "notjson" (text that is no JSON), "badstate" (JSON
\* that is no program state: load raises KeyError) or "unreadable" (the file
\* exists and may not be opened: load raises PermissionError)
ProgramFile(ms, q) == IF q \in DOMAIN ms THEN ms[q] ELSE "missing"

NoProgram == [compiled |-> FALSE, from |-> <<>>]

\* the exception prog.load raises on text that is no JSON: the load is done
\* by the dspy library, whose JSON decoder raises json.JSONDecodeError or a
\* plain ValueError, depending on the decoder it is built on
DecoderErrors == {"JSONDecodeError", "ValueError"}

\* the exceptions line 45 catches
CaughtOnLoad == {"FileNotFoundError", "JSONDecodeError"}

\* approver.py lines 39-48 from the i-th path on; prog is NoProgram for the
\* None of line 48, jsonError is the exception of the decoder
RECURSIVE try_from(_, _, _, _)
try_from(paths, i, ms, jsonError) ==
    IF i > Len(paths) THEN [exc |-> "", prog |-> NoProgram, tried |-> paths]
    ELSE LET q == expanduser(paths[i])
             st == ProgramFile(ms, q)
             exc == CASE st = "notjson" -> jsonError
                      [] st = "badstate" -> "KeyError"
                      [] st = "unreadable" -> "PermissionError"
                      [] OTHER -> ""
         IN IF st = "missing" THEN try_from(paths, i + 1, ms, jsonError)
            ELSE IF st = "ok"
            THEN [exc |-> "", prog |-> [compiled |-> TRUE, from |-> q],
                  tried |-> SubSeq(paths, 1, i)]
            ELSE IF exc \in CaughtOnLoad THEN try_from(paths, i + 1, ms, jsonError)
            ELSE [exc |-> exc, prog |-> NoProgram, tried |-> SubSeq(paths, 1, i)]

try_load_compiled(paths, ms, jsonError) == try_from(paths, 1, ms, jsonError)

\* bytes.decode("utf-8", "ignore") on the bytes the model uses: an ASCII byte
\* is named by its character, "<C3>" starts a two-byte character, "<A9>" is a
\* continuation byte, "<FF>" is never valid.  "<C3>" "<A9>" decodes to the one
\* character "U+E9"; bytes that complete no character are dropped.
RECURSIVE Decode(_)
Decode(bs) ==
    IF bs = <<>> THEN <<>>
    ELSE CASE Head(bs) = "<C3>" ->
                IF Len(bs) >= 2 /\ bs[2] = "<A9>"
                THEN <<"U+E9">> \o Decode(SubSeq(bs, 3, Len(bs)))
                ELSE Decode(Tail(bs))
           [] Head(bs) \in {"<A9>", "<FF>"} -> Decode(Tail(bs))
           [] OTHER -> <<Head(bs)>> \o Decode(Tail(bs))

\* s[-n:] for n > 0
LastChars(s, n) == IF Len(s) <= n THEN s ELSE SubSeq(s, Len(s) - n + 1, Len(s))

\* cli.py lines 177-185: path is the JSON value of transcript_path (or ""),
\* ts maps a path to [st, bytes]; a path ts does not hold is a missing file
tail(path, n, ts) ==
    IF ~Truthy(path) \/ n <= 0 THEN [exc |-> "", text |-> <<>>]
    ELSE IF ~IsStr(path)
    THEN IF path.t = "num" THEN [exc |-> "", text |-> <<>>]
         ELSE [exc |-> "TypeError", text |-> <<>>]
    ELSE IF path.s \notin DOMAIN ts \/ ts[path.s].st # "ok" THEN [exc |-> "", text |-> <<>>]
    ELSE LET bytes == ts[path.s].bytes
             sz == Len(bytes)
             start == IF sz - n > 0 THEN sz - n ELSE 0
         IN [exc |-> "", text |-> LastChars(Decode(SubSeq(bytes, start + 1, sz)), n)]

\* ------------------------------------------------------ SpecMerge: inputs

GOther == Dict([matcher |-> Str("Bash.*"),
                hooks |-> List(<<Dict([type |-> Str("command"), command |-> Str(CmdEcho),
                                       timeout |-> Num(10)])>>)])
GMarker == Dict([matcher |-> Str("OldPattern"),
                 hooks |-> List(<<Dict([type |-> Str("command"), command |-> Str(CmdOld),
                                        timeout |-> Num(10)])>>)])
\* a marker group whose first inner entry is another tool's
GMulti == Dict([matcher |-> Str("Multi"),
                hooks |-> List(<<Dict([type |-> Str("command"), command |-> Str(CmdBackup),
                                       timeout |-> Num(5)]),
                                 Dict([type |-> Str("command"), command |-> Str(CmdHook),
                                       timeout |-> Num(10)])>>)])
\* a group with a field of its own and three inner entries, two of which
\* hold the marker
GTwoMarkers == Dict([matcher |-> Str("Two"), description |-> Str("kept"),
                     hooks |-> List(<<Dict([type |-> Str("command"), command |-> Str(CmdBackup),
                                            timeout |-> Num(5)]),
                                      Dict([type |-> Str("script"), command |-> Str(CmdOld),
                                            timeout |-> Num(7), async |-> Num(1)]),
                                      Dict([type |-> Str("command"), command |-> Str(CmdHook),
                                            timeout |-> Num(10)])>>)])
GNoHooks == Dict([matcher |-> Str("NoHooks")])
\* inner entries that are not mappings
GOddInner == Dict([matcher |-> Str("Odd"), hooks |-> List(<<Null, Str(CmdHook)>>)])
\* "hooks" holds a number: iterating it raises TypeError
GBadHooks == Dict([matcher |-> Str("Bad"), hooks |-> Num(5)])

GroupPool == {GOther, GMarker, GMulti, GTwoMarkers, Null, Num(7), Str(CmdHook), Dict(EmptyMap),
              GNoHooks, GOddInner, GBadHooks}

PostHooks == List(<<Dict([hooks |-> List(<<Dict([type |-> Str("command"),
                                                  command |-> Str(CmdBackup)])>>)])>>)

RECURSIVE ListsUpTo(_)
ListsUpTo(n) ==
    IF n = 0 THEN {<<>>}
    ELSE LET shorter == ListsUpTo(n - 1)
         IN shorter \cup {Append(l, g) : l \in {x \in shorter : Len(x) = n - 1}, g \in GroupPool}

\* the settings merge_pretooluse_hook may be handed
MergeInputs ==
    {Dict(EmptyMap),
     Dict([hooks |-> Dict(EmptyMap)]),
     Dict([hooks |-> Dict([PostToolUse |-> PostHooks])]),
     Dict([hooks |-> Null]),
     Dict([hooks |-> Dict([PreToolUse |-> Null])])}
    \cup {Dict([hooks |-> Dict([PreToolUse |-> List(l), PostToolUse |-> PostHooks])]) :
            l \in ListsUpTo(MaxGroups)}

\* the keyword arguments of a call
MergeArgs ==
    {[command |-> CmdHook, matcher |-> "Bash|Edit|Write", timeout |-> 60],
     [command |-> CmdHook, matcher |-> "Write", timeout |-> 30],
     [command |-> CmdOld, matcher |-> "Write", timeout |-> 60],
     [command |-> CmdStandalone, matcher |-> "Bash|Edit|Write", timeout |-> 60],
     [command |-> CmdStandalone, matcher |-> "Write", timeout |-> 30]}

NoCall == [command |-> "", matcher |-> "", timeout |-> 0]

\* ----------------------------------------------------- SpecMerge: actions

NoLoad == [exc |-> "", settings |-> Null, path |-> "", reads |-> <<>>]
NoInit == [scope |-> "", model |-> "", history_bytes |-> 0, standalone |-> FALSE,
           matcher |-> "", timeout |-> 0, policy_text |-> "",
           prompt_model |-> Null, eval_model |-> Null, reflection_model |-> Null]

\* the variables of the other specifications, at rest
\* no value recorded yet
Unset == [t |-> "unset"]
NoHist == [policy |-> Unset, dspy |-> <<>>]

IdleMerge ==
    /\ settings = Dict(EmptyMap)
    /\ pre = Dict(EmptyMap)
    /\ ncalls = 0
    /\ last = NoCall
    /\ allMarker = TRUE
    /\ raised = ""
    /\ hist = NoHist
IdleFiles ==
    /\ files = [p \in {"local", "shared", "global"} |-> [st |-> "missing", data |-> Null]]
    /\ loaded = NoLoad
IdleInit ==
    /\ nruns = 0
    /\ lastInit = NoInit
    /\ initExc = ""

NoRes == [decision |-> PyNone, reason |-> PyNone]
NoErr == [stage |-> "", exc |-> ""]
HookLocals == [tool |-> Null, tinput |-> Null, tpath |-> Null, settings |-> Null,
               cfg |-> NoCfg, program |-> NoProgram, tried |-> <<>>, history |-> <<>>,
               policy |-> "", res |-> NoRes, given |-> <<>>, callRaised |-> FALSE]

IdleHook ==
    /\ stdin = [kind |-> "empty", val |-> Null]
    /\ hookArgs = [history_bytes |-> Null]
    /\ models = <<>>
    /\ transcripts = <<>>
    /\ hpc = "idle"
    /\ hk = HookLocals
    /\ stdout = <<>>
    /\ progCalls = 0
    /\ herr = NoErr

NoWrite == [pc |-> "none", path |-> "", data |-> Null, old |-> <<>>, new |-> <<>>]
NoRead == [i |-> 0, reads |-> <<>>, done |-> FALSE]
IdleRace ==
    /\ wr = NoWrite
    /\ rd = NoRead

IdleTail ==
    /\ tcase = Unset
    /\ tres = Unset

IdleOptimize ==
    /\ opt = Unset
    /\ optFiles = Unset

IdlePolicy ==
    /\ merged = Unset

InitMerge ==
    /\ IdleFiles
    /\ IdleHook
    /\ IdleRace
    /\ IdleTail
    /\ IdleOptimize
    /\ IdlePolicy
    /\ IdleInit
    /\ settings \in MergeInputs
    /\ pre = settings
    /\ ncalls = 0
    /\ last = NoCall
    /\ allMarker = TRUE
    /\ raised = ""
    /\ hist = NoHist

\* one call merge_pretooluse_hook(settings, command=c, matcher=m, timeout=t);
\* the mapping is changed in place, so a raising call keeps what it had set
MergeCall ==
    /\ ncalls < MaxCalls
    /\ \E a \in MergeArgs :
         LET r == merge_pretooluse_hook(settings, a.command, a.matcher, a.timeout)
         IN /\ settings' = r.settings
            /\ raised' = r.exc
            /\ last' = a
            /\ allMarker' = (allMarker /\ Contains(Spell[a.command], MARKER))
    /\ ncalls' = ncalls + 1
    /\ UNCHANGED <<pre, hist, fileVars, initVars, hookVars, raceVars, tailVars, optVars, policyVars>>

NextMerge == MergeCall

SpecMerge == InitMerge /\ [][NextMerge]_vars

\* ------------------------------------------------ properties of SpecMerge

\* the sequence under hooks.PreToolUse of the settings s, empty when there is none
PreToolUseOf(s) ==
    IF /\ "hooks" \in DOMAIN s.m
       /\ IsDict(s.m["hooks"])
       /\ "PreToolUse" \in DOMAIN s.m["hooks"].m
       /\ s.m["hooks"].m["PreToolUse"].t = "list"
    THEN s.m["hooks"].m["PreToolUse"].l
    ELSE <<>>

\* the keys of the hooks section of s other than PreToolUse, with their values
OtherHookKeys(s) ==
    IF "hooks" \in DOMAIN s.m /\ IsDict(s.m["hooks"])
    THEN [k \in DOMAIN s.m["hooks"].m \ {"PreToolUse"} |-> s.m["hooks"].m[k]]
    ELSE EmptyMap

\* e is an inner hook entry with a string command that contains "cc-approver"
HasMarkerCommand(e) ==
    /\ e.t = "dict"
    /\ "command" \in DOMAIN e.m
    /\ e.m["command"].t = "str"
    /\ Contains(Spell[e.m["command"].s], MARKER)

\* g is a hook group one of whose commands contains the marker
IsMarkerGroup(g) ==
    /\ g.t = "dict"
    /\ "hooks" \in DOMAIN g.m
    /\ g.m["hooks"].t = "list"
    /\ \E j \in 1..Len(g.m["hooks"].l) : HasMarkerCommand(g.m["hooks"].l[j])

MarkerPositions(lst) == {i \in 1..Len(lst) : IsMarkerGroup(lst[i])}
OtherPositions(lst) == {i \in 1..Len(lst) : ~IsMarkerGroup(lst[i])}

\* g carries the matcher, command and timeout of the call a
HoldsCall(g, a) ==
    /\ "matcher" \in DOMAIN g.m
    /\ g.m["matcher"] = Str(a.matcher)
    /\ \E j \in 1..Len(g.m["hooks"].l) :
         LET e == g.m["hooks"].l[j]
         IN /\ HasMarkerCommand(e)
            /\ e.m["command"] = Str(a.command)
            /\ "timeout" \in DOMAIN e.m
            /\ e.m["timeout"] = Num(a.timeout)

\* the shapes of a PreToolUse entry that the scan passes over or reads: an
\* entry that is no mapping, or a mapping whose "hooks" is absent, null or a
\* list (of anything)
ScannableEntry(e) ==
    \/ e.t # "dict"
    \/ "hooks" \notin DOMAIN e.m
    \/ e.m["hooks"].t \in {"null", "list"}

\* the hooks section of s is absent, or a mapping whose PreToolUse is absent
\* or a list of scannable entries
ScannableSection(s) ==
    \/ "hooks" \notin DOMAIN s.m
    \/ /\ IsDict(s.m["hooks"])
       /\ \/ "PreToolUse" \notin DOMAIN s.m["hooks"].m
          \/ /\ s.m["hooks"].m["PreToolUse"].t = "list"
             /\ \A i \in 1..Len(PreToolUseOf(s)) : ScannableEntry(PreToolUseOf(s)[i])

\* C4: starting from a PreToolUse list with no or one marker group, after
\* N >= 1 calls whose commands all contain the marker there is exactly one
\* marker group, it holds the matcher, command and timeout of the N-th call,
\* and the number of other groups is what it was before the first call.
C4_OneGroupAfterNCalls ==
    ( /\ ncalls >= 1
      /\ allMarker
      /\ ScannableSection(pre)
      /\ Cardinality(MarkerPositions(PreToolUseOf(pre))) <= 1 )
    => /\ raised = ""
       /\ Cardinality(MarkerPositions(PreToolUseOf(settings))) = 1
       /\ \A i \in MarkerPositions(PreToolUseOf(settings)) :
            HoldsCall(PreToolUseOf(settings)[i], last)
       /\ Cardinality(OtherPositions(PreToolUseOf(settings)))
            = Cardinality(OtherPositions(PreToolUseOf(pre)))

\* C4 witness: a second call has updated the one marker group of a list that
\* also holds another group, with values differing from the stored ones
C4_Witness ==
    /\ ncalls >= 2
    /\ allMarker
    /\ raised = ""
    /\ Cardinality(MarkerPositions(PreToolUseOf(pre))) = 1
    /\ Cardinality(OtherPositions(PreToolUseOf(pre))) >= 1
    /\ \E i \in MarkerPositions(PreToolUseOf(settings)) :
         /\ HoldsCall(PreToolUseOf(settings)[i], last)
         /\ PreToolUseOf(settings)[i] # PreToolUseOf(pre)[i]

\* C5 (as claimed): after a call that returned, at most one group of
\* PreToolUse contains the marker, whatever the list held before.
C5_AtMostOneMarkerGroup ==
    (ncalls >= 1 /\ raised = "") =>
        Cardinality(MarkerPositions(PreToolUseOf(settings))) <= 1

\* the frame of one call, from the settings a before it to the settings b after
MergeFrame(a, b) ==
    LET la == PreToolUseOf(a)
        lb == PreToolUseOf(b)
    IN /\ Len(lb) \in {Len(la), Len(la) + 1}
       /\ \A i \in OtherPositions(la) : lb[i] = la[i]
       /\ Cardinality({i \in 1..Len(la) : lb[i] # la[i]}) + (Len(lb) - Len(la)) <= 1
       /\ OtherHookKeys(b) = OtherHookKeys(a)
       /\ [k \in DOMAIN b.m \ {"hooks"} |-> b.m[k]] = [k \in DOMAIN a.m \ {"hooks"} |-> a.m[k]]

\* C7: a call leaves every group without the marker as it was and where it
\* was, and every other key of the hooks section; it changes at most the one
\* marker group or appends one group.
C7_MergeFrame == [][ncalls' # ncalls => MergeFrame(settings, settings')]_vars

\* C7 witness: a call has updated the marker group of a list that holds
\* another group too, in a hooks section that has a PostToolUse key
C7_Witness ==
    /\ ncalls >= 1
    /\ raised = ""
    /\ "PostToolUse" \in DOMAIN OtherHookKeys(settings)
    /\ \E i, j \in 1..Len(PreToolUseOf(pre)) :
         /\ IsMarkerGroup(PreToolUseOf(pre)[i])
         /\ PreToolUseOf(settings)[i] # PreToolUseOf(pre)[i]
         /\ PreToolUseOf(pre)[j] = GOther
         /\ PreToolUseOf(settings)[j] = GOther

\* an entry the claim calls malformed: no mapping, an empty mapping, a group
\* without "hooks", or a group with an inner entry that is no mapping
MalformedEntry(e) ==
    \/ e.t # "dict"
    \/ "hooks" \notin DOMAIN e.m
    \/ /\ e.m["hooks"].t = "list"
       /\ \E j \in 1..Len(e.m["hooks"].l) : e.m["hooks"].l[j].t # "dict"

\* C8: on a PreToolUse list whose entries are hook groups or malformed in the
\* ways listed, a call does not raise, every malformed entry stays where it
\* was, and when the list has no marker group the new group is appended last.
C8_MalformedSkipped ==
    [][(ncalls' # ncalls /\ ScannableSection(settings)) =>
          LET la == PreToolUseOf(settings)
              lb == PreToolUseOf(settings')
          IN /\ raised' = ""
             /\ Len(lb) >= Len(la)
             /\ \A i \in 1..Len(la) : MalformedEntry(la[i]) => lb[i] = la[i]
             /\ MarkerPositions(la) = {} =>
                  lb = Append(la, Dict([matcher |-> Str(last'.matcher),
                                        hooks |-> List(<<Dict([type |-> Str("command"),
                                                               command |-> Str(last'.command),
                                                               timeout |-> Num(last'.timeout)])>>)]))
      ]_vars

\* C8 witness: the first call appended its group after a null entry and a
\* group whose inner entries are no mappings
C8_Witness ==
    /\ ncalls = 1
    /\ raised = ""
    /\ PreToolUseOf(pre) = <<Null, GOddInner>>
    /\ Len(PreToolUseOf(settings)) = 3
    /\ IsMarkerGroup(PreToolUseOf(settings)[3])

\* ----------------------------------------------------------- SpecChain
\* load_settings_chain applied to every combination of file states

SettingsA == Dict([dspyApprover |-> Dict([model |-> Str("model-a")]),
                   policy |-> Dict([approverInstructions |-> Str("Policy A")])])
SettingsB == Dict([dspyApprover |-> Dict([model |-> Str("model-b"), historyBytes |-> Num(100)])])

FilePool ==
    {[st |-> "missing", data |-> Null],
     [st |-> "unreadable", data |-> Null],
     [st |-> "notjson", data |-> Null],
     [st |-> "badutf8", data |-> Null],
     [st |-> "json", data |-> List(<<Num(1)>>)],
     [st |-> "json", data |-> Dict(EmptyMap)],
     [st |-> "json", data |-> SettingsA],
     [st |-> "json", data |-> SettingsB]}

InitChain ==
    /\ IdleMerge
    /\ IdleHook
    /\ IdleRace
    /\ IdleTail
    /\ IdleOptimize
    /\ IdlePolicy
    /\ IdleInit
    /\ files \in [{"local", "shared", "global"} -> FilePool]
    /\ loaded = NoLoad

LoadChain ==
    /\ loaded = NoLoad
    /\ loaded' = load_settings_chain(files)
    /\ UNCHANGED <<files, mergeVars, initVars, hookVars, raceVars, tailVars, optVars, policyVars>>

NextChain == LoadChain

SpecChain == InitChain /\ [][NextChain]_vars

\* the file f exists and parses as a JSON mapping
ValidMapping(f) == f.st = "json" /\ f.data.t = "dict"

\* C10: load_settings_chain returns the content and path of the first of
\* project-local, project-shared, user-global that exists and parses as a
\* mapping and reads no file after it; when none does it returns an empty
\* mapping with the project-shared path.
C10_FirstValidWins ==
    (loaded # NoLoad /\ \A p \in DOMAIN files : files[p].st # "badutf8") =>
        /\ loaded.exc = ""
        /\ IF ValidMapping(files["local"])
           THEN /\ loaded.settings = files["local"].data
                /\ loaded.path = "local"
                /\ loaded.reads = <<"local">>
           ELSE IF ValidMapping(files["shared"])
           THEN /\ loaded.settings = files["shared"].data
                /\ loaded.path = "shared"
                /\ loaded.reads = <<"local", "shared">>
           ELSE IF ValidMapping(files["global"])
           THEN /\ loaded.settings = files["global"].data
                /\ loaded.path = "global"
                /\ loaded.reads = <<"local", "shared", "global">>
           ELSE /\ loaded.settings = [t |-> "dict", m |-> <<>>]
                /\ loaded.path = "shared"
                /\ loaded.reads = <<"local", "shared", "global">>

\* C10 witness: project-local holds JSON that is no mapping, project-shared
\* and user-global both hold mappings, and the project-shared one was returned
C10_Witness ==
    /\ loaded # NoLoad
    /\ files["local"] = [st |-> "json", data |-> List(<<Num(1)>>)]
    /\ files["shared"].data = SettingsB
    /\ files["global"].data = SettingsA
    /\ loaded.path = "shared"
    /\ loaded.settings = SettingsB

\* ------------------------------------------------------------ SpecInit
\* init runs against the three settings files

SComplex ==
    Dict([version |-> Str("1.0"),
          hooks |-> Dict([PreToolUse |-> List(<<GOther>>), PostToolUse |-> PostHooks]),
          policy |-> Dict([existingRules |-> Str("Don't modify files in /etc")]),
          customSettings |-> Dict([theme |-> Str("dark"), editor |-> Str("vim")])])
SRegistered ==
    Dict([policy |-> Dict([approverInstructions |-> Str("Old policy"),
                           mergeStrategy |-> Str("append")]),
          dspyApprover |-> Dict([model |-> Str("old-model")]),
          hooks |-> Dict([PreToolUse |-> List(<<GMarker>>)]),
          permissions |-> Dict([allow |-> List(<<Str("Read")>>)])])
SBadPolicy == Dict([policy |-> Null, version |-> Str("1.0")])

InitFilePool ==
    {[st |-> "missing", data |-> Null],
     [st |-> "notjson", data |-> Null],
     [st |-> "json", data |-> List(<<Num(1)>>)],
     [st |-> "json", data |-> SComplex],
     [st |-> "json", data |-> SRegistered],
     [st |-> "json", data |-> SBadPolicy]}

\* the flags of an init run (cmd_init_or_tui passes all of them)
InitArgs ==
    {[scope |-> "project", model |-> "model1", history_bytes |-> 0, standalone |-> FALSE,
      matcher |-> "Pattern1", timeout |-> 10, policy_text |-> "Policy 1",
      prompt_model |-> Null, eval_model |-> Null, reflection_model |-> Null],
     [scope |-> "project", model |-> "model2", history_bytes |-> 100, standalone |-> FALSE,
      matcher |-> "Pattern2", timeout |-> 20, policy_text |-> "Policy 2",
      prompt_model |-> Str("prompt-model"), eval_model |-> Null, reflection_model |-> Null],
     [scope |-> "project", model |-> "model3", history_bytes |-> 200, standalone |-> TRUE,
      matcher |-> "Pattern3", timeout |-> 30, policy_text |-> "Policy 3",
      prompt_model |-> Null, eval_model |-> Null, reflection_model |-> Null],
     [scope |-> "global", model |-> "model1", history_bytes |-> 0, standalone |-> TRUE,
      matcher |-> "Pattern1", timeout |-> 10, policy_text |-> "",
      prompt_model |-> Null, eval_model |-> Str("eval-model"), reflection_model |-> Null],
     [scope |-> "global", model |-> "model2", history_bytes |-> 0, standalone |-> FALSE,
      matcher |-> "Pattern2", timeout |-> 20, policy_text |-> "Policy 2",
      prompt_model |-> Null, eval_model |-> Null, reflection_model |-> Str("reflection-model")]}

InitInit ==
    /\ IdleMerge
    /\ IdleHook
    /\ IdleRace
    /\ IdleTail
    /\ IdleOptimize
    /\ IdlePolicy
    /\ files \in [{"local", "shared", "global"} -> InitFilePool]
    /\ loaded = NoLoad
    /\ nruns = 0
    /\ lastInit = NoInit
    /\ initExc = ""

\* one `cc-approver init` run (cmd_init_or_tui -> _run_init)
RunInit ==
    /\ nruns < MaxRuns
    /\ \E a \in InitArgs, copyOk \in BOOLEAN :
         LET r == run_init(files, a, copyOk)
         IN /\ files' = r.files
            /\ loaded' = r.loaded
            /\ initExc' = r.exc
            /\ lastInit' = a
    /\ nruns' = nruns + 1
    /\ UNCHANGED <<mergeVars, hookVars, raceVars, tailVars, optVars, policyVars>>

NextInit == RunInit

SpecInit == InitInit /\ [][NextInit]_vars

\* e is an inner hook entry whose command is one init registers: it contains
\* "cc-approver" or is the standalone hook script
HasToolCommand(e) ==
    /\ e.t = "dict"
    /\ "command" \in DOMAIN e.m
    /\ e.m["command"].t = "str"
    /\ (Contains(Spell[e.m["command"].s], MARKER) \/ e.m["command"].s = CmdStandalone)

ToolGroupPositions(lst) ==
    {i \in 1..Len(lst) :
        /\ lst[i].t = "dict"
        /\ "hooks" \in DOMAIN lst[i].m
        /\ lst[i].m["hooks"].t = "list"
        /\ \E j \in 1..Len(lst[i].m["hooks"].l) : HasToolCommand(lst[i].m["hooks"].l[j])}

\* C6 (as claimed): after one or more init runs on a settings file, with any
\* flags, hooks.PreToolUse of that file holds exactly one group registered by
\* this tool, and it carries the matcher and timeout of the last run.
C6_OneRegisteredGroup ==
    (nruns >= 1 /\ initExc = "") =>
        LET lst == PreToolUseOf(files[loaded.path].data)
        IN /\ Cardinality(ToolGroupPositions(lst)) = 1
           /\ \A i \in ToolGroupPositions(lst) :
                /\ Get(lst[i], "matcher", Null) = Str(lastInit.matcher)
                /\ \E j \in 1..Len(lst[i].m["hooks"].l) :
                     /\ HasToolCommand(lst[i].m["hooks"].l[j])
                     /\ Get(lst[i].m["hooks"].l[j], "timeout", Null) = Num(lastInit.timeout)

\* the part of C6 that the code keeps: runs without --standalone
C6_OneGroupWithoutStandalone ==
    (nruns >= 1 /\ initExc = ""
       /\ \A i \in 1..Len(PreToolUseOf(files[loaded.path].data)) :
            \A j \in 1..Len(InnerHooks(PreToolUseOf(files[loaded.path].data)[i]).l) :
               Get(InnerHooks(PreToolUseOf(files[loaded.path].data)[i]).l[j], "command", Null)
                  # Str(CmdStandalone))
    => Cardinality(ToolGroupPositions(PreToolUseOf(files[loaded.path].data))) = 1

\* the keys of the mapping d other than those in known, with their values
UnknownKeys(d, known) == [k \in DOMAIN d.m \ known |-> d.m[k]]

\* C9: an init run that completes writes a file in which every top-level key
\* of the loaded configuration other than policy, dspyApprover and hooks, and
\* every key of policy other than approverInstructions, has the value it had
\* in the file read; the file written is the file read (or the project-shared
\* file when none was loaded) and the other files stay as they were.
C9_InitPreservesUnknown ==
    [][(nruns' # nruns /\ initExc' = "") =>
          LET p == loaded'.path
              old == IF ValidMapping(files[p]) THEN files[p].data ELSE [t |-> "dict", m |-> <<>>]
              new == files'[p].data
          IN /\ files'[p].st = "json"
             /\ \A q \in DOMAIN files : q # p => files'[q] = files[q]
             /\ \A q \in DOMAIN files : ValidMapping(files[q]) => ValidMapping(files[p])
             /\ new.t = "dict"
             /\ \A k \in DOMAIN old.m \ {"policy", "dspyApprover", "hooks"} :
                  k \in DOMAIN new.m /\ new.m[k] = old.m[k]
             /\ ("policy" \in DOMAIN old.m /\ old.m["policy"].t = "dict") =>
                  \A k \in DOMAIN old.m["policy"].m \ {"approverInstructions"} :
                     /\ k \in DOMAIN new.m["policy"].m
                     /\ new.m["policy"].m[k] = old.m["policy"].m[k]
      ]_vars

\* C9 witness: init completed on a file with unknown top-level keys and an
\* unknown policy key, and changed the file
C9_Witness ==
    /\ nruns >= 1
    /\ initExc = ""
    /\ loaded.settings = SComplex
    /\ files[loaded.path].data # SComplex
    /\ files[loaded.path].data.m["customSettings"] = SComplex.m["customSettings"]
    /\ "existingRules" \in DOMAIN files[loaded.path].data.m["policy"].m
    /\ "approverInstructions" \in DOMAIN files[loaded.path].data.m["policy"].m

\* ------------------------------------------------------------ SpecHook
\* bytes.decode("utf-8") without "ignore" raises UnicodeDecodeError on bytes
\* that complete no character: Decode dropped some byte of bs
Undecodable(bs) ==
    LET d == Decode(bs)
    IN Len(d) + Cardinality({i \in 1..Len(d) : d[i] = "U+E9"}) # Len(bs)

\* the file at path cannot be opened for reading: open raises
\* FileNotFoundError, PermissionError or IsADirectoryError, all of them OSError
CannotOpen(path, ts) == path \notin DOMAIN ts \/ ts[path].st # "ok"

\* f.seek(0,2); sz=f.tell(); f.seek(max(0, sz-n)); f.read()
LastBytes(bytes, n) ==
    LET sz == Len(bytes)
        start == IF sz - n > 0 THEN sz - n ELSE 0
    IN SubSeq(bytes, start + 1, sz)

\* tail of hook.py with a decode that does not ignore errors
hook_tail_Strict(path, n, ts) ==
    IF ~Truthy(path) \/ n <= 0 THEN [exc |-> "", text |-> <<>>]
    ELSE IF ~IsStr(path)
    THEN IF path.t = "num" THEN [exc |-> "", text |-> <<>>]
         ELSE [exc |-> "TypeError", text |-> <<>>]
    ELSE IF CannotOpen(path.s, ts) THEN [exc |-> "", text |-> <<>>]
    ELSE LET read == LastBytes(ts[path.s].bytes, n)
         IN IF Undecodable(read) THEN [exc |-> "UnicodeDecodeError", text |-> <<>>]
            ELSE [exc |-> "", text |-> LastChars(Decode(read), n)]

\* hook.py lines 56-64
hook_tail(path, n, ts) ==
    IF ~Truthy(path) \/ n <= 0 THEN [exc |-> "", text |-> <<>>]
    ELSE IF ~IsStr(path)
    THEN IF path.t = "num" THEN [exc |-> "", text |-> <<>>]
         ELSE [exc |-> "TypeError", text |-> <<>>]
    ELSE IF CannotOpen(path.s, ts) THEN [exc |-> "", text |-> <<>>]
    ELSE [exc |-> "", text |-> LastChars(Decode(LastBytes(ts[path.s].bytes, n)), n)]

\* what _read_history returns: the inline history_tail value as it is, or
\* text read from the transcript
Inline(v) == [exc |-> "", inline |-> v, text |-> <<>>]
FromFile(text) == [exc |-> "", inline |-> Null, text |-> text]

\* _read_history that decodes the whole file and keeps its last
\* history_bytes characters
read_history_WholeFile(obj, history_bytes, ts) ==
    LET h == Get(obj, "history_tail", Null)
        path == Get(obj, "transcript_path", Null)
    IN IF Truthy(h) THEN Inline(h)
       ELSE IF history_bytes <= 0 THEN FromFile(<<>>)
       ELSE IF ~IsStr(path) THEN FromFile(<<>>)
       ELSE IF CannotOpen(path.s, ts) THEN FromFile(<<>>)
       ELSE FromFile(LastChars(Decode(ts[path.s].bytes), history_bytes))

\* optimizer.py lines 28-43 (open("") raises FileNotFoundError: "" names no
\* file of ts)
read_history(obj, history_bytes, ts) ==
    LET h == Get(obj, "history_tail", Null)
        path == Get(obj, "transcript_path", Null)
    IN IF Truthy(h) THEN Inline(h)
       ELSE IF history_bytes <= 0 THEN FromFile(<<>>)
       ELSE IF ~IsStr(path) THEN FromFile(<<>>)
       ELSE IF CannotOpen(path.s, ts) THEN FromFile(<<>>)
       ELSE FromFile(LastChars(Decode(LastBytes(ts[path.s].bytes, history_bytes)),
                               history_bytes))

\* ------------------------------------------------------ training data
\* A line of a JSONL file is [kind, val]: kind is "blank" (nothing but white
\* space), "notjson" (text json.loads rejects) or "json", and val is then the
\* JSON value of the line.

\* optimizer.py lines 18-26: which field the tool input is taken from, and
\* the field's value ("{}" when there is none)
normalize_tool_input(obj) ==
    IF IsStr(Get(obj, "tool_input_json", Null))
    THEN [from |-> "tool_input_json", val |-> obj.m["tool_input_json"]]
    ELSE IF Get(obj, "tool_input", Null).t \in {"dict", "list"}
    THEN [from |-> "tool_input", val |-> obj.m["tool_input"]]
    ELSE IF IsStr(Get(obj, "tool_input_preview", Null))
    THEN [from |-> "tool_input_preview", val |-> obj.m["tool_input_preview"]]
    ELSE [from |-> "", val |-> Str("{}")]

\* a or b or ""
FirstTruthy(a, b) == IF Truthy(a) THEN a ELSE IF Truthy(b) THEN b ELSE Str("")

\* optimizer.py lines 45-50; obj is any JSON value, and obj.get raises
\* AttributeError when it is no mapping, as .strip() does on a label that is
\* no string
normalize(obj, policy, history_bytes, ts) ==
    IF ~IsDict(obj) THEN [exc |-> "AttributeError", ex |-> Null]
    ELSE LET tool == FirstTruthy(Get(obj, "tool_name", Null), Get(obj, "tool", Null))
             ti == normalize_tool_input(obj)
             h == read_history(obj, history_bytes, ts)
             raw == FirstTruthy(Get(obj, "label", Null), Get(obj, "decision", Null))
         IN IF ~IsStr(raw) THEN [exc |-> "AttributeError", ex |-> Null]
            ELSE [exc |-> "",
                  ex |-> [tool |-> tool, tool_input_json |-> ti, history_tail |-> h,
                          label |-> Lower(Strip(Spell[raw.s])), policy |-> policy]]

\* optimizer.py lines 55-69 from line i of the file on, out being the
\* examples appended so far; an example keeps the number of its line
RECURSIVE read_lines(_, _, _, _, _, _)
read_lines(lines, i, out, policy, history_bytes, ts) ==
    IF i > Len(lines) THEN [exc |-> "", out |-> out]
    ELSE IF lines[i].kind \in {"blank", "notjson"}
    THEN read_lines(lines, i + 1, out, policy, history_bytes, ts)
    ELSE LET r == normalize(lines[i].val, policy, history_bytes, ts)
         IN IF r.exc # "" THEN [exc |-> r.exc, out |-> out]
            ELSE IF r.ex.label \notin VALID_DECISIONS
            THEN read_lines(lines, i + 1, out, policy, history_bytes, ts)
            ELSE read_lines(lines, i + 1,
                            Append(out, [line |-> i, policy |-> r.ex.policy, tool |-> r.ex.tool,
                                         tool_input_json |-> r.ex.tool_input_json,
                                         history_tail |-> r.ex.history_tail,
                                         decision |-> r.ex.label]),
                            policy, history_bytes, ts)

\* optimizer.py lines 52-70; f is [st, lines], and path.open raises
\* FileNotFoundError for a file that is not there
read_jsonl(f, policy, history_bytes, ts) ==
    IF f.st = "missing" THEN [exc |-> "FileNotFoundError", out |-> <<>>]
    ELSE read_lines(f.lines, 1, <<>>, policy, history_bytes, ts)

\* random.Random(RANDOM_SEED).shuffle(x) for RANDOM_SEED = 7 and a list x of
\* n = 1..12 elements: element SeededShuffle[n][i] of x comes to position i
\* (the generator's output, which depends on n alone)
SeededShuffle ==
    << <<1>>,
       <<1, 2>>,
       <<3, 1, 2>>,
       <<4, 2, 1, 3>>,
       <<5, 1, 4, 2, 3>>,
       <<5, 1, 6, 4, 2, 3>>,
       <<6, 7, 5, 1, 4, 2, 3>>,
       <<7, 8, 3, 5, 1, 4, 2, 6>>,
       <<2, 7, 8, 5, 1, 9, 4, 3, 6>>,
       <<9, 4, 2, 5, 8, 1, 10, 7, 3, 6>>,
       <<2, 11, 4, 10, 9, 5, 8, 1, 7, 3, 6>>,
       <<8, 12, 4, 11, 9, 5, 10, 2, 1, 7, 3, 6>> >>
shuffle(x) == IF x = <<>> THEN x ELSE [i \in 1..Len(x) |-> x[SeededShuffle[Len(x)][i]]]

\* int(VALIDATION_SPLIT_RATIO * n) for the ratio 0.2: the double nearest to
\* 0.2 is a little above one fifth, so the product is never below n / 5
SplitFloor(n) == (2 * n) \div 10

\* optimizer.py line 114 with k = int(VALIDATION_SPLIT_RATIO * len(train)),
\* without max(1, ...)
split_NoMinimum(train) ==
    LET x == shuffle(train)
        k == SplitFloor(Len(x))
    IN [dev |-> SubSeq(x, 1, k), train |-> SubSeq(x, k + 1, Len(x))]

\* optimizer.py line 114: shuffle, k = max(1, int(0.2 * len(train))),
\* dev, train = train[:k], train[k:]
split(train) ==
    LET x == shuffle(train)
        f == SplitFloor(Len(x))
        k == IF f > 1 THEN f ELSE 1
    IN [dev |-> SubSeq(x, 1, k), train |-> SubSeq(x, k + 1, Len(x))]

\* ------------------------------------------------- layered policy text
\* get_merged_policy, which hook.py imports from settings.py, combines the
\* policy of the user-global configuration with that of the project
\* configuration.  g and l are the two configurations as loaded, Null for
\* one that is absent.

GlobalHeader == <<"G","L","O","B","A","L"," ","R","U","L","E","S",":"," ">>
ProjectHeader == <<"P","R","O","J","E","C","T","-","S","P","E","C","I","F","I","C"," ",
                   "R","U","L","E","S",":"," ">>
LocalHeader == <<"L","O","C","A","L"," ","R","U","L","E","S"," ","(","H","I","G","H","E","S","T",
                 " ","P","R","I","O","R","I","T","Y",")",":"," ">>
BlankLine == <<"\n", "\n">>

\* the policy section of a configuration, the empty mapping when there is none
PolicyOf(cfg) ==
    IF cfg.t = "dict" /\ Get(cfg, "policy", Null).t = "dict" THEN cfg.m["policy"]
    ELSE Dict(EmptyMap)

\* the instructions of one side: the field first when it holds a string,
\* else approverInstructions, else the empty text
InstructionsOf(cfg, first) ==
    LET p == PolicyOf(cfg)
    IN IF IsStr(Get(p, first, Null)) THEN Spell[p.m[first].s]
       ELSE IF IsStr(Get(p, "approverInstructions", Null))
       THEN Spell[p.m["approverInstructions"].s]
       ELSE <<>>

\* mergeStrategy of the project configuration, append when it sets none
StrategyOf(l) ==
    LET v == Get(PolicyOf(l), "mergeStrategy", Null)
    IN IF IsStr(v) THEN v.s ELSE "append"

\* get_merged_policy that puts the global rules first whatever the strategy
get_merged_policy_GlobalFirst(g, l) ==
    LET G == InstructionsOf(g, "globalInstructions")
        L == InstructionsOf(l, "localInstructions")
    IN IF G = <<>> THEN L
       ELSE IF L = <<>> THEN G
       ELSE GlobalHeader \o G \o BlankLine \o ProjectHeader \o L

\* get_merged_policy that labels the text of a single side too
get_merged_policy_AlwaysLabel(g, l) ==
    LET G == InstructionsOf(g, "globalInstructions")
        L == InstructionsOf(l, "localInstructions")
        strategy == StrategyOf(l)
    IN IF G = <<>> /\ L = <<>> THEN <<>>
       ELSE IF L = <<>> THEN GlobalHeader \o G
       ELSE IF G = <<>> THEN ProjectHeader \o L
       ELSE CASE strategy = "replace" -> L
              [] strategy = "prepend" -> LocalHeader \o L \o BlankLine \o GlobalHeader \o G
              [] OTHER -> GlobalHeader \o G \o BlankLine \o ProjectHeader \o L

\* the merged policy text: the text of the one side that has any; for two
\* sides the local text alone (replace), the local block before the global
\* block (prepend), or the global block before the project block (append)
get_merged_policy(g, l) ==
    LET G == InstructionsOf(g, "globalInstructions")
        L == InstructionsOf(l, "localInstructions")
        strategy == StrategyOf(l)
    IN IF G = <<>> THEN L
       ELSE IF L = <<>> THEN G
       ELSE CASE strategy = "replace" -> L
              [] strategy = "prepend" -> LocalHeader \o L \o BlankLine \o GlobalHeader \o G
              [] OTHER -> GlobalHeader \o G \o BlankLine \o ProjectHeader \o L

\* One run of `cc-approver hook` (cli.py cmd_hook), a step per group of
\* statements, with the settings files, the compiled-program files and the
\* transcripts fixed for the run.

PayloadBash == Dict([tool_name |-> Str("Bash"),
                     tool_input |-> Dict([command |-> Str("ls -la")]),
                     transcript_path |-> Str("/t.jsonl")])
PayloadNulls == Dict([tool_name |-> Null, tool_input |-> Null, transcript_path |-> Null])

\* what arrives on standard input: text that is empty, text that is no JSON,
\* or the JSON text of val
StdinPool ==
    {[kind |-> "empty", val |-> Null], [kind |-> "notjson", val |-> Null]}
    \cup {[kind |-> "json", val |-> v] :
            v \in {Null, Num(42), Str("x"), List(<<>>), Dict(EmptyMap), PayloadBash, PayloadNulls}}

NoFile == [st |-> "missing", data |-> Null]
NoFiles == [p \in {"local", "shared", "global"} |-> NoFile]
JsonFile(d) == [st |-> "json", data |-> d]

SParsedBytes == Dict([dspyApprover |-> Dict([historyBytes |-> Str(" 7 "),
                                             compiledModelPath |-> Str("/opt/approver.json")])])
SBadBytes == Dict([dspyApprover |-> Dict([historyBytes |-> Str("lots")])])
SHomeProgram == Dict([dspyApprover |-> Dict([compiledModelPath |-> Str("~/approver.json")])])
STextPolicy == Dict([policy |-> Str("allow everything")])

Transcript == [st |-> "ok", bytes |-> <<"a", "<C3>", "<A9>", "b", "<FF>", "c", "<C3>", "<A9>">>]

\* the surroundings of a run: settings files, compiled-program files by path,
\* transcripts by path and the --history-bytes flag (Null when not given)
HookEnvs ==
    {[files |-> NoFiles, models |-> <<>>, transcripts |-> <<>>, history_bytes |-> Null],
     [files |-> [NoFiles EXCEPT !["shared"] = JsonFile(SettingsA)],
      models |-> (ProjectDir \o ModelsSuffix :> "ok"),
      transcripts |-> ("/t.jsonl" :> Transcript), history_bytes |-> Num(3)],
     [files |-> [NoFiles EXCEPT !["local"] = JsonFile(SettingsB), !["shared"] = JsonFile(SettingsA)],
      models |-> (ProjectDir \o ModelsSuffix :> "notjson") @@ (HomeDir \o ModelsSuffix :> "ok"),
      transcripts |-> ("/t.jsonl" :> Transcript), history_bytes |-> Null],
     [files |-> [NoFiles EXCEPT !["global"] = JsonFile(SParsedBytes)],
      models |-> (Spell["/opt/approver.json"] :> "ok") @@ (HomeDir \o ModelsSuffix :> "ok"),
      transcripts |-> ("/t.jsonl" :> Transcript), history_bytes |-> Null],
     [files |-> [NoFiles EXCEPT !["shared"] = [st |-> "badutf8", data |-> Null]],
      models |-> <<>>, transcripts |-> <<>>, history_bytes |-> Null],
     [files |-> [NoFiles EXCEPT !["local"] = JsonFile(SBadBytes)],
      models |-> <<>>, transcripts |-> <<>>, history_bytes |-> Null],
     [files |-> [NoFiles EXCEPT !["shared"] = JsonFile(SHomeProgram)],
      models |-> (HomeDir \o Tail(Spell["~/approver.json"]) :> "badstate"),
      transcripts |-> <<>>, history_bytes |-> Null],
     [files |-> [NoFiles EXCEPT !["shared"] = JsonFile(STextPolicy)],
      models |-> <<>>, transcripts |-> <<>>, history_bytes |-> Null]}

\* the labels the decision program may return, before case and padding
Words ==
    {Allow, Deny, Ask, <<>>, <<"y","e","s">>, <<"a","l","l","o","w","e","d">>,
     <<"a","l","l","o","w"," ","i","t">>}

UpperOf(c) == IF \E u \in DOMAIN LowerOf : LowerOf[u] = c
              THEN CHOOSE u \in DOMAIN LowerOf : LowerOf[u] = c
              ELSE c
Upper(s) == [i \in 1..Len(s) |-> UpperOf(s[i])]
Capital(s) == IF s = <<>> THEN s ELSE <<UpperOf(Head(s))>> \o Tail(s)
Cased(w) == {w, Upper(w), Capital(w)}
Pads == {<< <<>>, <<>> >>, << <<" ">>, <<" ">> >>, << <<>>, <<"\n">> >>, << <<"\t">>, <<>> >>}

DigitChars == <<"0","1","2","3","4","5","6","7","8","9">>
ReasonOfLen(n) == [i \in 1..n |-> DigitChars[(i % 10) + 1]]
ShortReason == PyText(<<"o","k">>)
Reasons == {PyNone, PyText(<<>>), ShortReason,
            PyText(ReasonOfLen(MAX_REASON_LENGTH)), PyText(ReasonOfLen(MAX_REASON_LENGTH + 1))}

\* what one call of the decision program does: it raises, or it returns a
\* prediction [decision, reason]; given is the label the decision was made of
RunOutcomes ==
    {[raises |-> TRUE, decision |-> PyNone, reason |-> PyNone, given |-> <<>>]}
    \cup {[raises |-> FALSE, decision |-> PyNone, reason |-> ShortReason, given |-> <<>>]}
    \cup UNION {{[raises |-> FALSE, decision |-> PyText(p[1] \o c \o p[2]),
                   reason |-> ShortReason, given |-> w] : c \in Cased(w), p \in Pads} :
                 w \in Words}
    \cup {[raises |-> FALSE, decision |-> PyText(Allow), reason |-> r, given |-> Allow] :
            r \in Reasons}

\* a file that sets only compiledModelPath and whose approverInstructions is
\* no string
SPathOnly == Dict([dspyApprover |-> Dict([compiledModelPath |-> Str("/opt/approver.json")]),
                   policy |-> Dict([approverInstructions |-> Num(5)])])

\* what each of the three settings files may be when the layering is explored
LayerPool ==
    {NoFile, [st |-> "notjson", data |-> Null], JsonFile(SettingsA), JsonFile(SettingsB),
     JsonFile(SPathOnly)}
LayeredEnvs ==
    {[files |-> f, models |-> <<>>, transcripts |-> <<>>, history_bytes |-> Null] :
        f \in [{"local", "shared", "global"} -> LayerPool]}

\* the three candidate paths of a run whose settings name /opt/approver.json,
\* each with any kind of file
ProgramEnvs ==
    {[files |-> [NoFiles EXCEPT !["global"] = JsonFile(SParsedBytes)],
      models |-> ms, transcripts |-> <<>>, history_bytes |-> Null] :
        ms \in [{Spell["/opt/approver.json"], ProjectDir \o ModelsSuffix, HomeDir \o ModelsSuffix}
                  -> {"missing", "ok", "notjson", "badstate", "unreadable"}]}

InitHook ==
    /\ IdleMerge
    /\ IdleInit
    /\ IdleRace
    /\ IdleTail
    /\ IdleOptimize
    /\ IdlePolicy
    /\ loaded = NoLoad
    /\ stdin \in StdinPool
    /\ \E e \in HookEnvs \cup LayeredEnvs \cup ProgramEnvs :
         /\ e \notin HookEnvs => stdin = [kind |-> "json", val |-> PayloadBash]
         /\ files = e.files
         /\ models = e.models
         /\ transcripts = e.transcripts
         /\ hookArgs = [history_bytes |-> e.history_bytes]
    /\ hpc = "start"
    /\ hk = HookLocals
    /\ stdout = <<>>
    /\ progCalls = 0
    /\ herr = NoErr

\* the run ends with an uncaught exception raised at the given stage
Crash(stage, exc) ==
    /\ hpc' = "crashed"
    /\ herr' = [stage |-> stage, exc |-> exc]

OrDefault(v, dflt) == IF Truthy(v) THEN v ELSE dflt

\* cli.py lines 149-156
ParsePayload ==
    /\ hpc = "start"
    /\ LET payload == IF stdin.kind = "json" THEN stdin.val ELSE Dict(EmptyMap)
       IN IF ~IsDict(payload)
          THEN Crash("payload", "AttributeError") /\ hk' = hk
          ELSE /\ hk' = [hk EXCEPT
                           !.tool = OrDefault(Get(payload, "tool_name", Str("")), Str("")),
                           !.tinput = OrDefault(Get(payload, "tool_input", Dict(EmptyMap)),
                                                Dict(EmptyMap)),
                           !.tpath = OrDefault(Get(payload, "transcript_path", Str("")), Str(""))]
               /\ hpc' = "parsed"
               /\ herr' = herr
    /\ UNCHANGED <<stdin, hookArgs, models, transcripts, stdout, progCalls,
                   mergeVars, fileVars, initVars, raceVars, tailVars, optVars, policyVars>>

\* lines 158-161 with the resolved settings written back to their file
ResolveSettings_WriteBack ==
    /\ hpc = "parsed"
    /\ LET ld == load_settings_chain(files)
       IN IF ld.exc # "" THEN Crash("settings", ld.exc) /\ hk' = hk /\ files' = files
          ELSE LET c == get_dspy_config(ld.settings)
               IN IF c.exc # ""
                  THEN /\ Crash("config", c.exc)
                       /\ hk' = [hk EXCEPT !.settings = ld.settings]
                       /\ files' = files
                  ELSE /\ hk' = [hk EXCEPT !.settings = ld.settings, !.cfg = c.cfg]
                       /\ hpc' = "resolved"
                       /\ herr' = herr
                       /\ files' = write_settings(files, ld.settings, ld.path)
    /\ UNCHANGED <<stdin, hookArgs, models, transcripts, stdout, progCalls,
                   mergeVars, loaded, initVars, raceVars, tailVars, optVars, policyVars>>

\* cli.py lines 158-161
ResolveSettings ==
    /\ hpc = "parsed"
    /\ LET ld == load_settings_chain(files)
       IN IF ld.exc # "" THEN Crash("settings", ld.exc) /\ hk' = hk
          ELSE LET c == get_dspy_config(ld.settings)
               IN IF c.exc # ""
                  THEN Crash("config", c.exc) /\ hk' = [hk EXCEPT !.settings = ld.settings]
                  ELSE /\ hk' = [hk EXCEPT !.settings = ld.settings, !.cfg = c.cfg]
                       /\ hpc' = "resolved"
                       /\ herr' = herr
    /\ UNCHANGED <<stdin, hookArgs, models, transcripts, stdout, progCalls,
                   mergeVars, fileVars, initVars, raceVars, tailVars, optVars, policyVars>>

\* cli.py lines 163-166
LoadProgram ==
    /\ hpc = "resolved"
    /\ \E jsonError \in DecoderErrors :
         LET r == try_load_compiled(candidates(hk.cfg), models, jsonError)
         IN IF r.exc # "" THEN Crash("program", r.exc) /\ hk' = [hk EXCEPT !.tried = r.tried]
            ELSE /\ hk' = [hk EXCEPT !.program = r.prog, !.tried = r.tried]
                 /\ hpc' = "loaded"
                 /\ herr' = herr
    /\ UNCHANGED <<stdin, hookArgs, models, transcripts, stdout, progCalls,
                   mergeVars, fileVars, initVars, raceVars, tailVars, optVars, policyVars>>

\* cli.py lines 168-169
ReadHistory ==
    /\ hpc = "loaded"
    /\ LET history_bytes == IF hookArgs.history_bytes # Null THEN hookArgs.history_bytes.n
                            ELSE hk.cfg.historyBytes
           r == tail(hk.tpath, history_bytes, transcripts)
       IN IF r.exc # "" THEN Crash("history", r.exc) /\ hk' = hk
          ELSE /\ hk' = [hk EXCEPT !.history = r.text]
               /\ hpc' = "ready"
               /\ herr' = herr
    /\ UNCHANGED <<stdin, hookArgs, models, transcripts, stdout, progCalls,
                   mergeVars, fileVars, initVars, raceVars, tailVars, optVars, policyVars>>

\* line 170 with a call that answers "ask" when the decision program raises
RunProgram_Swallow ==
    /\ hpc = "ready"
    /\ LET pol == get_policy_text(hk.settings)
       IN IF pol.exc # ""
          THEN Crash("policy", pol.exc) /\ hk' = hk /\ progCalls' = progCalls
          ELSE \E o \in RunOutcomes :
                 /\ progCalls' = progCalls + 1
                 /\ hk' = [hk EXCEPT !.policy = pol.text, !.given = o.given,
                                     !.callRaised = o.raises,
                                     !.res = IF o.raises
                                             THEN [decision |-> PyText(Ask), reason |-> PyNone]
                                             ELSE [decision |-> o.decision, reason |-> o.reason]]
                 /\ hpc' = "called"
                 /\ herr' = herr
    /\ UNCHANGED <<stdin, hookArgs, models, transcripts, stdout,
                   mergeVars, fileVars, initVars, raceVars, tailVars, optVars, policyVars>>

\* cli.py line 170: get_policy_text, then one call of the decision program
\* (approver.py lines 50-55), which returns a prediction or raises
RunProgram ==
    /\ hpc = "ready"
    /\ LET pol == get_policy_text(hk.settings)
       IN IF pol.exc # ""
          THEN Crash("policy", pol.exc) /\ hk' = hk /\ progCalls' = progCalls
          ELSE \E o \in RunOutcomes :
                 /\ progCalls' = progCalls + 1
                 /\ IF o.raises
                    THEN /\ Crash("call", "RuntimeError")
                         /\ hk' = [hk EXCEPT !.policy = pol.text, !.callRaised = TRUE]
                    ELSE /\ hk' = [hk EXCEPT !.policy = pol.text, !.given = o.given,
                                             !.res = [decision |-> o.decision,
                                                      reason |-> o.reason]]
                         /\ hpc' = "called"
                         /\ herr' = herr
    /\ UNCHANGED <<stdin, hookArgs, models, transcripts, stdout,
                   mergeVars, fileVars, initVars, raceVars, tailVars, optVars, policyVars>>

\* lines 172-175 with the response printed a second time
Emit_Twice ==
    /\ hpc = "called"
    /\ LET decision == normalize_decision(hk.res.decision)
           reason == truncate_reason(hk.res.reason)
           response == [hookEventName |-> HOOK_EVENT_NAME,
                        permissionDecision |-> decision,
                        permissionDecisionReason |-> reason]
       IN stdout' = stdout \o <<response, response>>
    /\ hpc' = "done"
    /\ UNCHANGED <<stdin, hookArgs, models, transcripts, hk, progCalls, herr,
                   mergeVars, fileVars, initVars, raceVars, tailVars, optVars, policyVars>>

\* cli.py lines 172-175
Emit ==
    /\ hpc = "called"
    /\ LET decision == normalize_decision(hk.res.decision)
           reason == truncate_reason(hk.res.reason)
       IN stdout' = Append(stdout, [hookEventName |-> HOOK_EVENT_NAME,
                                    permissionDecision |-> decision,
                                    permissionDecisionReason |-> reason])
    /\ hpc' = "done"
    /\ UNCHANGED <<stdin, hookArgs, models, transcripts, hk, progCalls, herr,
                   mergeVars, fileVars, initVars, raceVars, tailVars, optVars, policyVars>>

NextHook ==
    \/ ParsePayload
    \/ ResolveSettings
    \/ LoadProgram
    \/ ReadHistory
    \/ RunProgram
    \/ Emit

SpecHook == InitHook /\ [][NextHook]_vars

\* the run is one process that is not held up: once the decision program has
\* returned, the statements that follow it are executed
SpecHookFair == SpecHook /\ WF_vars(Emit)

\* ------------------------------------------------- SpecHook: properties

\* C1: the decision the hook prints is one of allow, deny and ask; it is
\* allow only when the value the decision program returned, trimmed and
\* lower-cased, is exactly "allow" (the returned value was made of the label
\* hk.given by changing case and adding blanks around it), and a returned
\* value that is none of the three labels (None included) is printed as ask.
C1_DecisionNormalized ==
    \A i \in 1..Len(stdout) :
        LET d == stdout[i].permissionDecision
        IN /\ d \in {Allow, Deny, Ask}
           /\ d = Allow => hk.given = Allow
           /\ hk.given \notin {Allow, Deny, Ask} => d = Ask

\* a returned " ALLOW "-like value was printed as allow
C1_Witness ==
    /\ hpc = "done"
    /\ Len(stdout) = 1
    /\ stdout[1].permissionDecision = Allow
    /\ ~hk.res.decision.none
    /\ hk.res.decision.s # Allow

\* the standard input of the run is empty, is no JSON, or is JSON that is no
\* object
UnusableStdin == stdin.kind \in {"empty", "notjson"} \/ ~IsDict(stdin.val)

\* C2: when standard input is empty, is no JSON or is JSON that is no object,
\* the run goes on with an empty tool name, an empty tool input and an empty
\* transcript path, and prints exactly one decision once the decision call
\* has returned.
C2_AnyStdinTolerated ==
    UnusableStdin =>
        /\ herr.stage # "payload"
        /\ hpc \notin {"idle", "start"} =>
              /\ hk.tool = Str("")
              /\ hk.tinput = Dict(EmptyMap)
              /\ hk.tpath = Str("")
        /\ hpc = "done" => Len(stdout) = 1 /\ stdout[1].permissionDecision \in {Allow, Deny, Ask}

\* the part of C2 that the code keeps: standard input that is empty or is no
\* JSON is taken as the empty payload
C2_NonJsonTolerated ==
    stdin.kind \in {"empty", "notjson"} =>
        /\ herr.stage # "payload"
        /\ hpc \notin {"idle", "start"} =>
              /\ hk.tool = Str("")
              /\ hk.tinput = Dict(EmptyMap)
              /\ hk.tpath = Str("")
        /\ hpc = "done" => Len(stdout) = 1 /\ stdout[1].permissionDecision \in {Allow, Deny, Ask}

Precedence == <<"local", "shared", "global">>
ActiveData(fs) ==
    IF \E i \in 1..3 : ValidMapping(fs[Precedence[i]])
    THEN fs[Precedence[Min({i \in 1..3 : ValidMapping(fs[Precedence[i]])})]].data
    ELSE Dict(EmptyMap)
\* the value the active file gives the key k of dspyApprover, Null when it
\* gives none
ActiveField(fs, k) ==
    LET sec == Get(ActiveData(fs), "dspyApprover", Null)
    IN IF IsDict(sec) THEN Get(sec, k, Null) ELSE Null

\* C11: once the hook has resolved its configuration, model, historyBytes and
\* compiledModelPath are those of the active file where it sets them and the
\* built-in defaults where it does not, whatever the files of lower
\* precedence hold (a number for historyBytes, a path without
\* $CLAUDE_PROJECT_DIR for compiledModelPath).
C11_NoDeepMerge ==
    hk.cfg # NoCfg =>
        LET model == ActiveField(files, "model")
            hbytes == ActiveField(files, "historyBytes")
            path == ActiveField(files, "compiledModelPath")
        IN /\ model = Null => hk.cfg.model = Str(DEFAULT_MODEL)
           /\ IsStr(model) /\ model.s # "" => hk.cfg.model = model
           /\ hbytes = Null => hk.cfg.historyBytes = 0
           /\ hbytes.t = "num" => hk.cfg.historyBytes = hbytes.n
           /\ path = Null => hk.cfg.compiledModelPath = ProjectDir \o ModelsSuffix
           /\ IsStr(path) /\ path.s # "" /\ ~Contains(Spell[path.s], ProjectDirVar)
                 => hk.cfg.compiledModelPath = Spell[path.s]

\* the active file sets model and historyBytes only, a file below it sets
\* compiledModelPath and another model: the defaults are resolved
C11_Witness ==
    /\ hpc = "resolved"
    /\ files["local"] = JsonFile(SettingsB)
    /\ files["shared"] = JsonFile(SPathOnly)
    /\ files["global"] = JsonFile(SettingsA)
    /\ hk.cfg.model = Str("model-b")
    /\ hk.cfg.historyBytes = 100
    /\ hk.cfg.compiledModelPath = ProjectDir \o ModelsSuffix

\* policy.approverInstructions of the active file when it is a string, the
\* empty string otherwise; no other file enters
ActivePolicyText(fs) ==
    LET pol == Get(ActiveData(fs), "policy", Null)
        t == IF IsDict(pol) THEN Get(pol, "approverInstructions", Null) ELSE Null
    IN IF IsStr(t) THEN t.s ELSE ""

FirstKeys == {"model", "historyBytes", "compiledModelPath", "optimizer", "auto"}
LastKeys == {"promptModel", "evalModel", "reflectionModel"}

PolicyInputs ==
    {Dict(EmptyMap),
     Dict([approverInstructions |-> Str("")]),
     Dict([approverInstructions |-> Str("Custom"), note |-> Str("keep")]),
     Dict([approverInstructions |-> Num(5)]),
     Dict([approverInstructions |-> Null]),
     Null}
DspyInputs ==
    {Dict(EmptyMap),
     Dict([model |-> Str("model-a")]),
     Dict([model |-> Str("model-a"), historyBytes |-> Num(0), optimizer |-> Null,
           promptModel |-> Str("prompt-a")]),
     Null}
EnsureInputs ==
    {Dict(EmptyMap)}
    \cup {Dict([policy |-> p]) : p \in PolicyInputs}
    \cup {Dict([dspyApprover |-> c]) : c \in DspyInputs}
    \cup {Dict([policy |-> p, dspyApprover |-> c]) : p \in PolicyInputs, c \in DspyInputs}

PolicyDefaults == {"Policy 1", "Policy 2", ""}
DspyArgs ==
    {[model |-> "model1", history_bytes |-> 0, compiled_path |-> CompiledProject,
      optimizer |-> "mipro", auto |-> "light",
      prompt_model |-> Null, eval_model |-> Null, reflection_model |-> Null],
     [model |-> "model2", history_bytes |-> 100, compiled_path |-> CompiledGlobal,
      optimizer |-> "gepa", auto |-> "heavy",
      prompt_model |-> Str("prompt2"), eval_model |-> Null, reflection_model |-> Str("reflect2")],
     [model |-> "model3", history_bytes |-> 200, compiled_path |-> CompiledProject,
      optimizer |-> "mipro", auto |-> "medium",
      prompt_model |-> Str("prompt3"), eval_model |-> Str("eval3"), reflection_model |-> Null]}

\* the value settings gives approverInstructions, Unset when there is none
PolicyField(s) ==
    LET pol == Get(s, "policy", Null)
    IN IF IsDict(pol) /\ "approverInstructions" \in DOMAIN pol.m
       THEN pol.m["approverInstructions"] ELSE Unset
\* the value settings gives the key k of dspyApprover, Unset when there is none
DspyField(s, k) ==
    LET cfg == Get(s, "dspyApprover", Null)
    IN IF IsDict(cfg) /\ k \in DOMAIN cfg.m THEN cfg.m[k] ELSE Unset

InitEnsure ==
    /\ IdleFiles
    /\ IdleHook
    /\ IdleRace
    /\ IdleTail
    /\ IdleOptimize
    /\ IdlePolicy
    /\ IdleInit
    /\ settings \in EnsureInputs
    /\ pre = settings
    /\ ncalls = 0
    /\ last = NoCall
    /\ allMarker = TRUE
    /\ raised = ""
    /\ hist = [policy |-> IF IsStr(PolicyField(settings)) THEN PolicyField(settings) ELSE Unset,
               dspy |-> [k \in FirstKeys \cup LastKeys |-> DspyField(settings, k)]]

\* one call ensure_policy_text(settings, d)
EnsurePolicy ==
    /\ ncalls < MaxEnsures
    /\ \E d \in PolicyDefaults :
         LET r == ensure_policy_text(settings, d)
         IN /\ settings' = r.settings
            /\ raised' = r.exc
            /\ last' = [call |-> "ensure_policy_text", default_text |-> d]
            /\ hist' = IF r.exc = "" /\ hist.policy = Unset
                       THEN [hist EXCEPT !.policy = Str(d)]
                       ELSE hist
    /\ ncalls' = ncalls + 1
    /\ UNCHANGED <<pre, allMarker, fileVars, initVars, hookVars, raceVars, tailVars, optVars, policyVars>>

\* the value the call with the flags a supplies for the key k
Supplied(a, k) ==
    CASE k = "model" -> Str(a.model)
      [] k = "historyBytes" -> Num(a.history_bytes)
      [] k = "compiledModelPath" -> Str(a.compiled_path)
      [] k = "optimizer" -> Str(a.optimizer)
      [] k = "auto" -> Str(a.auto)
      [] k = "promptModel" -> a.prompt_model
      [] k = "evalModel" -> a.eval_model
      [] k = "reflectionModel" -> a.reflection_model

\* one call ensure_dspy_config(settings, **a)
EnsureDspy ==
    /\ ncalls < MaxEnsures
    /\ \E a \in DspyArgs :
         LET r == ensure_dspy_config(settings, a.model, a.history_bytes, a.compiled_path,
                                     a.optimizer, a.auto, a.prompt_model, a.eval_model,
                                     a.reflection_model)
         IN /\ settings' = r.settings
            /\ raised' = r.exc
            /\ last' = [call |-> "ensure_dspy_config", flags |-> a]
            /\ hist' = IF r.exc # "" THEN hist
                       ELSE [hist EXCEPT !.dspy =
                               [k \in FirstKeys \cup LastKeys |->
                                  IF k \in FirstKeys
                                  THEN IF hist.dspy[k] = Unset THEN Supplied(a, k) ELSE hist.dspy[k]
                                  ELSE IF Supplied(a, k) # Null THEN Supplied(a, k)
                                       ELSE hist.dspy[k]]]
    /\ ncalls' = ncalls + 1
    /\ UNCHANGED <<pre, allMarker, fileVars, initVars, hookVars, raceVars, tailVars, optVars, policyVars>>

NextEnsure ==
    \/ EnsurePolicy
    \/ EnsureDspy

SpecEnsure == InitEnsure /\ [][NextEnsure]_vars

\* C13: any sequence of ensure_policy_text calls keeps the first string
\* ever stored in policy.approverInstructions: a string the field held from
\* the start (the empty string included) is never replaced, and where the
\* field was absent or no string the default of the first completed call is
\* stored and kept.
C13_FirstPolicyStringKept ==
    hist.policy # Unset => PolicyField(settings) = hist.policy

\* the field held the empty string, calls with other defaults were made
C13_Witness ==
    /\ ncalls >= 2
    /\ last.call = "ensure_policy_text"
    /\ last.default_text = "Policy 2"
    /\ PolicyField(pre) = Str("")
    /\ PolicyField(settings) = Str("")

\* C14: over any sequence of ensure_dspy_config calls, model, historyBytes,
\* compiledModelPath, optimizer and auto hold the value of the first call
\* that found them absent (or the value they had from the start), and
\* promptModel, evalModel and reflectionModel hold the last value supplied
\* that was not None (or the value they had from the start, or nothing).
C14_FirstAndLastWrites ==
    IsDict(Get(settings, "dspyApprover", Null)) =>
        \A k \in FirstKeys \cup LastKeys : DspyField(settings, k) = hist.dspy[k]

\* three calls; the second set promptModel, the third gave None for it
C14_Witness ==
    /\ ncalls = 3
    /\ last.call = "ensure_dspy_config"
    /\ last.flags.model = "model1"
    /\ DspyField(settings, "model") = Str("model2")
    /\ DspyField(settings, "promptModel") = Str("prompt2")
    /\ DspyField(settings, "reflectionModel") = Str("reflect2")

\* --------------------------------------- SpecInit: what a run stores, where

\* C15 (as claimed): an init run on a settings file that already holds
\* policy.approverInstructions and dspyApprover.model writes a file that
\* holds the policy text and the model given to that run.
C15_InitStoresGivenValues ==
    (/\ nruns >= 1
     /\ initExc = ""
     /\ IsStr(PolicyField(loaded.settings))
     /\ DspyField(loaded.settings, "model") # Unset)
    => /\ PolicyField(files[loaded.path].data) = Str(lastInit.policy_text)
       /\ DspyField(files[loaded.path].data, "model") = Str(lastInit.model)

\* what the code does instead: the values the file held are kept
C15_InitKeepsStoredValues ==
    (/\ nruns >= 1
     /\ initExc = ""
     /\ IsStr(PolicyField(loaded.settings))
     /\ DspyField(loaded.settings, "model") # Unset)
    => /\ PolicyField(files[loaded.path].data) = PolicyField(loaded.settings)
       /\ DspyField(files[loaded.path].data, "model") = DspyField(loaded.settings, "model")

\* the settings file of a scope
ScopeFile(scope) == IF scope = "project" THEN "shared" ELSE "global"

\* C16 (as claimed): an init run that completes leaves the resulting
\* configuration in the settings file of the scope it was given, whatever
\* files existed before, and changes no other file.
C16_InitWritesScopeFile ==
    [][(nruns' # nruns /\ initExc' = "") =>
          /\ ValidMapping(files'[ScopeFile(lastInit'.scope)])
          /\ Cardinality(ToolGroupPositions(
                 PreToolUseOf(files'[ScopeFile(lastInit'.scope)].data))) >= 1
          /\ \A q \in DOMAIN files : q # ScopeFile(lastInit'.scope) => files'[q] = files[q]
      ]_vars

\* what the code does instead: the file written is the one
\* load_settings_chain named, whatever the scope
C16_InitWritesLoadedFile ==
    [][(nruns' # nruns /\ initExc' = "") =>
          /\ ValidMapping(files'[loaded'.path])
          /\ \A q \in DOMAIN files : q # loaded'.path => files'[q] = files[q]
          /\ loaded'.path = IF \E i \in 1..3 : ValidMapping(files[Precedence[i]])
                            THEN Precedence[Min({i \in 1..3 : ValidMapping(files[Precedence[i]])})]
                            ELSE "shared"
      ]_vars

\* ------------------------------------------- SpecChain: reading fails soft

\* C17 (as claimed): whatever the three files are (missing, unreadable, no
\* JSON, no UTF-8, JSON), load_settings_chain raises nothing and returns the
\* first file that holds a mapping, or the empty mapping when none does.
C17_ReadFailsSoft ==
    loaded # NoLoad =>
        /\ loaded.exc = ""
        /\ loaded.settings = ActiveData(files)
        /\ Len(loaded.reads) >= 1

\* the part of C17 that the code keeps: files that are missing, unreadable or
\* no JSON are passed over
C17_SoftWithoutBadBytes ==
    (loaded # NoLoad /\ \A p \in DOMAIN files : files[p].st # "badutf8") =>
        /\ loaded.exc = ""
        /\ loaded.settings = ActiveData(files)

\* ------------------------------------------------------------ SpecRace
\* An init run writes a settings file while a hook run resolves its
\* settings.  _write_json (settings.py lines 20-23) opens the file with mode
\* "w", which empties it, and the text reaches the file when it is flushed
\* or closed; load_settings_chain (lines 32-37) reads one path after the
\* other.  Each open, flush and read is a step of its own.

RacePool == {NoFile, JsonFile(SettingsA), JsonFile(SRegistered)}
RaceArgs == {a \in InitArgs : ~a.standalone}

InitRace ==
    /\ IdleMerge
    /\ IdleInit
    /\ IdleHook
    /\ IdleTail
    /\ IdleOptimize
    /\ IdlePolicy
    /\ files \in [{"local", "shared", "global"} -> RacePool]
    /\ loaded = NoLoad
    /\ wr = [pc |-> "idle", path |-> "", data |-> Null, old |-> files, new |-> files]
    /\ rd = [i |-> 1, reads |-> <<>>, done |-> FALSE]

\* _run_init up to the call of write_settings (cli.py lines 82-99)
PrepareWrite ==
    /\ wr.pc = "idle"
    /\ \E a \in RaceArgs :
         LET r == run_init(files, a, TRUE)
         IN /\ r.exc = ""
            /\ wr' = [pc |-> "ready", path |-> r.loaded.path,
                      data |-> r.files[r.loaded.path].data, old |-> files, new |-> r.files]
    /\ UNCHANGED <<files, loaded, rd, mergeVars, initVars, hookVars, tailVars, optVars, policyVars>>

\* settings.py line 22: open(p, "w") leaves an empty file, which is no JSON
OpenForWrite ==
    /\ wr.pc = "ready"
    /\ files' = [files EXCEPT ![wr.path] = [st |-> "notjson", data |-> Null]]
    /\ wr' = [wr EXCEPT !.pc = "open"]
    /\ UNCHANGED <<loaded, rd, mergeVars, initVars, hookVars, tailVars, optVars, policyVars>>

\* settings.py line 23: json.dump, the newline and the close of the file
CloseAfterWrite ==
    /\ wr.pc = "open"
    /\ files' = write_settings(files, wr.data, wr.path)
    /\ wr' = [wr EXCEPT !.pc = "done"]
    /\ UNCHANGED <<loaded, rd, mergeVars, initVars, hookVars, tailVars, optVars, policyVars>>

\* one turn of the loop of load_settings_chain in the hook run (settings.py
\* lines 33-35), and lines 36-37 after the last path
ReadNext ==
    /\ ~rd.done
    /\ IF rd.i > Len(settings_paths)
       THEN /\ loaded' = [exc |-> "", settings |-> Dict(EmptyMap), path |-> settings_paths[2],
                          reads |-> rd.reads]
            /\ rd' = [rd EXCEPT !.done = TRUE]
       ELSE LET p == settings_paths[rd.i]
                d == read_json(files[p])
            IN IF d.exc # ""
               THEN /\ loaded' = [exc |-> d.exc, settings |-> Null, path |-> "",
                                  reads |-> Append(rd.reads, p)]
                    /\ rd' = [rd EXCEPT !.done = TRUE, !.reads = Append(rd.reads, p)]
               ELSE IF IsDict(d.val)
               THEN /\ loaded' = [exc |-> "", settings |-> d.val, path |-> p,
                                  reads |-> Append(rd.reads, p)]
                    /\ rd' = [rd EXCEPT !.done = TRUE, !.reads = Append(rd.reads, p)]
               ELSE /\ loaded' = loaded
                    /\ rd' = [rd EXCEPT !.i = rd.i + 1, !.reads = Append(rd.reads, p)]
    /\ UNCHANGED <<files, wr, mergeVars, initVars, hookVars, tailVars, optVars, policyVars>>

NextRace ==
    \/ PrepareWrite
    \/ OpenForWrite
    \/ CloseAfterWrite
    \/ ReadNext

SpecRace == InitRace /\ [][NextRace]_vars

\* C18 (as claimed): a hook run that resolves its settings while an init run
\* writes a settings file gets the configuration of the files as they were
\* before the write or as they are after it, never that of a file of lower
\* precedence (or the empty one) because the file being written was
\* unparsable for a moment.
C18_NoTornRead ==
    rd.done =>
        /\ loaded.exc = ""
        /\ loaded.settings \in {ActiveData(wr.old), ActiveData(wr.new)}

\* while no write is under way the resolved configuration is that of the files
C18_QuietReadIsExact ==
    (rd.done /\ wr.pc \in {"idle", "ready"}) => loaded.settings = ActiveData(files)

\* ------------------------------------- SpecHook: files and compiled programs

\* C19: no step of a hook run, whether the run ends with a decision or with
\* an exception, changes the project-local, the project-shared or the
\* user-global settings file.
C19_HookLeavesFiles == [][files' = files]_vars

\* a run came to its end with settings files present, another one crashed
C19_Witness ==
    /\ hpc \in {"done", "crashed"}
    /\ ValidMapping(files["local"])
    /\ ValidMapping(files["shared"])

\* the hook run is past the loading of the compiled program
PastLoad ==
    \/ hpc \in {"loaded", "ready", "called", "done"}
    \/ hpc = "crashed" /\ herr.stage \in {"program", "history", "policy", "call"}

\* the program of the first candidate, in the order configured path, project
\* default, user-global default, whose file is a saved program; the default
\* program when there is none
FirstLoadable ==
    LET cands == <<hk.cfg.compiledModelPath, ProjectDir \o ModelsSuffix, HomeDir \o ModelsSuffix>>
        ok == {i \in 1..3 : ProgramFile(models, expanduser(cands[i])) = "ok"}
    IN IF ok = {} THEN NoProgram
       ELSE [compiled |-> TRUE, from |-> expanduser(cands[Min(ok)])]

\* C20 (as claimed): the hook uses the first candidate that exists and loads;
\* a candidate that is missing or whose load fails for whatever reason is
\* passed over without an exception, and the default program is used when
\* none loads.
C20_FirstLoadableWins ==
    PastLoad => herr.stage # "program" /\ hk.program = FirstLoadable

\* the part of C20 that the code keeps: unless the load of a candidate raises
\* an exception other than FileNotFoundError and json.JSONDecodeError, the
\* first candidate that loads is used
C20_FirstLoadableUnlessRaise ==
    (PastLoad /\ herr.stage # "program") => hk.program = FirstLoadable

\* ------------------------------------------- SpecHook: the printed response

\* s[:n]
FirstChars(s, n) == IF Len(s) <= n THEN s ELSE SubSeq(s, 1, n)

\* C22: the reason the hook prints is the first min(500, length) characters
\* of the reason the decision call returned, the empty text for a reason of
\* None: it is never longer than 500 characters, and a reason of 500
\* characters or fewer is printed unchanged.
C22_ReasonCapped ==
    \A i \in 1..Len(stdout) :
        LET returned == OrEmpty(hk.res.reason)
            printed == stdout[i].permissionDecisionReason
        IN /\ printed = FirstChars(returned, 500)
           /\ Len(printed) <= 500
           /\ Len(returned) <= 500 => printed = returned
           /\ hk.res.reason.none => printed = <<>>

\* a reason of 501 characters was printed with its first 500
C22_Witness ==
    /\ hpc = "done"
    /\ Len(stdout) = 1
    /\ Len(hk.res.reason.s) = 501
    /\ Len(stdout[1].permissionDecisionReason) = 500

\* what has happened when a response is on standard output: the payload was
\* read, the settings were resolved and the decision program has returned
ResponseInOrder ==
    stdout # <<>> =>
        /\ hpc = "done"
        /\ hk.cfg # NoCfg
        /\ progCalls = 1
        /\ ~hk.callRaised

\* C23: a hook run is a single pass.  At most one response is ever on
\* standard output and the decision program is called at most once; a
\* response is there only after the settings were resolved and the one call
\* of the decision program has returned; once that call has returned the
\* run goes on to print exactly one response; and after the response no
\* further step is taken.
C23_SinglePass ==
    /\ [](Len(stdout) <= 1 /\ progCalls <= 1 /\ ResponseInOrder)
    /\ (hpc = "called") ~> (hpc = "done" /\ Len(stdout) = 1 /\ progCalls = 1)
    /\ [][hpc \notin {"done", "crashed"}]_vars

\* a run that printed its one response after one call of the decision program
C23_Witness ==
    /\ hpc = "done"
    /\ Len(stdout) = 1
    /\ progCalls = 1
    /\ hk.cfg # NoCfg

\* ------------------------------------- SpecMerge: the inner hook entries

\* the mapping d without the keys ks
Without(d, ks) == [k \in DOMAIN d.m \ ks |-> d.m[k]]

\* what one call with the arguments a does to the marker group g, which
\* becomes g2
InnerFrame(g, g2, a) ==
    LET inner == g.m["hooks"].l
        inner2 == g2.m["hooks"].l
        j == Min({x \in 1..Len(inner) : HasMarkerCommand(inner[x])})
    IN /\ g2.t = "dict"
       /\ g2.m["hooks"].t = "list"
       /\ Len(inner2) = Len(inner)
       /\ \A x \in 1..Len(inner) : x # j => inner2[x] = inner[x]
       /\ inner2[j].t = "dict"
       /\ inner2[j].m["command"] = Str(a.command)
       /\ inner2[j].m["timeout"] = Num(a.timeout)
       /\ Without(inner2[j], {"command", "timeout"}) = Without(inner[j], {"command", "timeout"})
       /\ g2.m["matcher"] = Str(a.matcher)
       /\ Without(g2, {"matcher", "hooks"}) = Without(g, {"matcher", "hooks"})

\* C30: a call that finds the marker group sets the command and the timeout
\* of the first inner entry of that group whose command holds the marker and
\* the matcher of the group; every other inner entry of the group keeps its
\* type, command and timeout (it is left as it was), the changed entry keeps
\* its other fields, and no other field of the group changes.
C30_OnlyFirstMarkerEntry ==
    [][(ncalls' # ncalls /\ raised' = "" /\ MarkerPositions(PreToolUseOf(settings)) # {}) =>
          LET la == PreToolUseOf(settings)
              lb == PreToolUseOf(settings')
              i == Min(MarkerPositions(la))
          IN /\ Len(lb) = Len(la)
             /\ InnerFrame(la[i], lb[i], last')
      ]_vars

\* a call has updated a group of three inner entries two of which held the
\* marker: the first of the two has the new command and timeout, the second
\* is as it was
C30_Witness ==
    /\ ncalls >= 1
    /\ raised = ""
    /\ \E i \in 1..Len(PreToolUseOf(pre)) :
         /\ PreToolUseOf(pre)[i] = GTwoMarkers
         /\ i = Min(MarkerPositions(PreToolUseOf(pre)))
         /\ PreToolUseOf(settings)[i] # GTwoMarkers
         /\ PreToolUseOf(settings)[i].m["hooks"].l[2] # GTwoMarkers.m["hooks"].l[2]
         /\ PreToolUseOf(settings)[i].m["hooks"].l[3] = GTwoMarkers.m["hooks"].l[3]

\* ----------------------------------------------------------- SpecTail
\* tail (hook.py and cli.py) and _read_history (optimizer.py) applied to one
\* transcript path, byte budget and training record.

Digits == [st |-> "ok", bytes |-> <<"0","1","2","3","4","5","6","7","8","9">>]

\* the transcript files there are; "/missing.jsonl" is none of them
TailFiles ==
    ("/t.jsonl" :> Transcript)
 @@ ("/digits.txt" :> Digits)
 @@ ("/empty.jsonl" :> [st |-> "ok", bytes |-> <<>>])
 @@ ("/locked.jsonl" :> [st |-> "unreadable", bytes |-> <<>>])
 @@ ("/dir" :> [st |-> "directory", bytes |-> <<>>])

\* a transcript path: absent (None), empty, or the name of a file
TailPaths ==
    {Null, Str(""), Str("/t.jsonl"), Str("/digits.txt"), Str("/empty.jsonl"),
     Str("/locked.jsonl"), Str("/dir"), Str("/missing.jsonl")}

\* byte budgets: below, at and above the lengths of the files (8 and 10 bytes)
Budgets == {-1, 0, 1, 2, 3, 5, 6, 8, 10, 11}

\* the inline history_tail of a record: absent, null, empty or a text
InlineHistories == {Unset, Null, Str(""), Str("earlier output")}

\* the training record with the given transcript_path and history_tail
TrainRecord(path, inline) ==
    LET keys == {"label"} \cup (IF path = Null THEN {} ELSE {"transcript_path"})
                          \cup (IF inline = Unset THEN {} ELSE {"history_tail"})
    IN Dict([k \in keys |-> CASE k = "label" -> Str("allow")
                               [] k = "transcript_path" -> path
                               [] k = "history_tail" -> inline])

InitTail ==
    /\ IdleMerge
    /\ IdleFiles
    /\ IdleInit
    /\ IdleHook
    /\ IdleRace
    /\ IdleOptimize
    /\ IdlePolicy
    /\ \E path \in TailPaths, n \in Budgets, inline \in InlineHistories :
         tcase = [ts |-> TailFiles, path |-> path, n |-> n, obj |-> TrainRecord(path, inline)]
    /\ tres = [hook |-> Unset, cli |-> Unset, hist |-> Unset]

\* hook.py line 44: tail(tpath, cfg["historyBytes"]), tpath being
\* payload.get("transcript_path","") or ""
CallHookTail ==
    /\ tres.hook = Unset
    /\ tres' = [tres EXCEPT !.hook = hook_tail(OrDefault(tcase.path, Str("")), tcase.n, tcase.ts)]
    /\ UNCHANGED <<tcase, mergeVars, fileVars, initVars, hookVars, raceVars, optVars, policyVars>>

\* cli.py line 169: tail(tpath, history_bytes)
CallCliTail ==
    /\ tres.cli = Unset
    /\ tres' = [tres EXCEPT !.cli = tail(OrDefault(tcase.path, Str("")), tcase.n, tcase.ts)]
    /\ UNCHANGED <<tcase, mergeVars, fileVars, initVars, hookVars, raceVars, optVars, policyVars>>

\* optimizer.py line 48: _read_history(obj, history_bytes)
CallReadHistory ==
    /\ tres.hist = Unset
    /\ tres' = [tres EXCEPT !.hist = read_history(tcase.obj, tcase.n, tcase.ts)]
    /\ UNCHANGED <<tcase, mergeVars, fileVars, initVars, hookVars, raceVars, optVars, policyVars>>

NextTail ==
    \/ CallHookTail
    \/ CallCliTail
    \/ CallReadHistory

SpecTail == InitTail /\ [][NextTail]_vars

\* ------------------------------------------------- SpecTail: properties

\* the path names a file that can be read
Readable(path) ==
    /\ path # Null
    /\ path.s \in DOMAIN tcase.ts
    /\ tcase.ts[path.s].st = "ok"

\* the smaller of two numbers
Smaller(a, b) == IF a <= b THEN a ELSE b

\* C21: tail(path, n) never raises.  It returns the empty text when n <= 0,
\* when the path is empty and when the file is missing or cannot be read;
\* otherwise, for a file of L bytes, it returns the decoding of the last
\* min(n, L) bytes, which is at most n characters, bytes that form no
\* character being left out.  For the 10-byte file 0123456789 and n = 5 it
\* returns 56789.
C21_TailOfFile ==
    tres.hook # Unset =>
        LET r == tres.hook
            path == tcase.path
            n == tcase.n
        IN /\ r.exc = ""
           /\ (n <= 0 \/ path \in {Null, Str("")} \/ ~Readable(path)) => r.text = <<>>
           /\ (n > 0 /\ Readable(path)) =>
                 LET bytes == tcase.ts[path.s].bytes
                     L == Len(bytes)
                     k == Smaller(n, L)
                 IN /\ r.text = Decode(SubSeq(bytes, L - k + 1, L))
                    /\ Len(r.text) <= n
           /\ (path = Str("/digits.txt") /\ n = 5) => r.text = <<"5","6","7","8","9">>

\* tail has returned the last six bytes of an 8-byte file: they begin in the
\* middle of a two-byte character and hold a byte that is never valid, and
\* both are left out of the text
C21_Witness ==
    /\ tres.hook # Unset
    /\ tcase.path = Str("/t.jsonl")
    /\ tcase.n = 6
    /\ tres.hook.exc = ""
    /\ tres.hook.text = <<"b", "c", "U+E9">>

\* C25: the history of a training record is its inline history_tail when
\* that is not empty; otherwise it is what tail of hook.py and tail of cli.py
\* return for the record's transcript_path and the same byte budget, which
\* is the empty text when the budget is <= 0, when the path is absent and
\* when the file cannot be read.
C25_HistoryAsTail ==
    (tres.hist # Unset /\ tres.hook # Unset /\ tres.cli # Unset) =>
        LET inline == Get(tcase.obj, "history_tail", Null)
        IN /\ tres.hist.exc = ""
           /\ Truthy(inline) => tres.hist.inline = inline
           /\ ~Truthy(inline) =>
                 /\ tres.hist.inline = Null
                 /\ tres.hist.text = tres.hook.text
                 /\ tres.hist.text = tres.cli.text
                 /\ (tcase.n <= 0 \/ tcase.path = Null \/ ~Readable(tcase.path)) =>
                       tres.hist.text = <<>>

\* a record without inline history got the text that both tails return: the
\* last five bytes of the transcript, decoded
C25_Witness ==
    /\ tres.hist # Unset
    /\ tres.hook # Unset
    /\ tres.cli # Unset
    /\ "history_tail" \notin DOMAIN tcase.obj.m
    /\ tcase.path = Str("/t.jsonl")
    /\ tcase.n = 5
    /\ tres.hist.text = <<"b", "c", "U+E9">>
    /\ tres.hook.text = tres.hist.text

\* -------------------------------------------------------- SpecOptimize
\* One run of `cc-approver optimize --train F [--val V]`: _run_optimize of
\* cli.py and optimize_from_files of optimizer.py, a step per group of
\* statements.  The optimizer and the language model are outside the
\* program: compiling returns a program or raises.

MaxLines == 2       \* longest training file drawn line by line from LinePool
MaxExamples == 10   \* longest training file made of usable lines only

Blank == [kind |-> "blank", val |-> Null]
NotJson == [kind |-> "notjson", val |-> Null]
JsonLine(v) == [kind |-> "json", val |-> v]

\* what a line of a training file may hold
LinePool ==
    {Blank, NotJson,
     JsonLine(Dict([tool_name |-> Str("Bash"), tool_input_json |-> Str("{}"),
                    label |-> Str("allow")])),
     JsonLine(Dict([tool |-> Str("Edit"), tool_input |-> Dict(EmptyMap),
                    decision |-> Str("DENY\n")])),
     JsonLine(Dict([tool_name |-> Str("Read"), label |-> Str(" Allow "),
                    transcript_path |-> Str("/digits.txt")])),
     JsonLine(Dict([tool_name |-> Str("Bash"), label |-> Str(""), decision |-> Str("ask")])),
     JsonLine(Dict([tool_name |-> Str("Bash"), label |-> Str("maybe")])),
     JsonLine(Dict([tool_name |-> Str("Bash"), label |-> Str("maybe"),
                    decision |-> Str("allow")])),
     JsonLine(Dict([tool_name |-> Str("Bash")])),
     JsonLine(Dict([tool_name |-> Str("Bash"), label |-> Num(1)])),
     JsonLine(List(<<Str("allow")>>)),
     JsonLine(Num(42)),
     JsonLine(Null)}

RECURSIVE LinesUpTo(_)
LinesUpTo(n) ==
    IF n = 0 THEN {<<>>}
    ELSE LET shorter == LinesUpTo(n - 1)
         IN shorter \cup {Append(l, x) : l \in {y \in shorter : Len(y) = n - 1}, x \in LinePool}

\* line i of a file of usable lines: the labels go round allow, deny, ask
UsableLine(i) ==
    JsonLine(Dict([tool_name |-> Str("Bash"), tool_input |-> Dict([command |-> Num(i)]),
                   label |-> Str(<<"allow", "deny", "ask">>[(i % 3) + 1])]))

\* the training files: every file of up to MaxLines lines of LinePool, the
\* files of 1..MaxExamples usable lines, and the file that is not there
TrainFiles ==
    {[st |-> "ok", lines |-> l] : l \in LinesUpTo(MaxLines)}
    \cup {[st |-> "ok", lines |-> [i \in 1..n |-> UsableLine(i)]] : n \in 1..MaxExamples}
    \cup {[st |-> "missing", lines |-> <<>>]}

\* the validation file of the runs that are given one
ValFile == [st |-> "ok", lines |-> <<UsableLine(1), NotJson, UsableLine(2)>>]

\* the flags of a run and what is at the save path before it
OptArgs ==
    {[val |-> FALSE, optimizer |-> "mipro", save |-> "absent"],
     [val |-> FALSE, optimizer |-> "gepa", save |-> "old"],
     [val |-> TRUE, optimizer |-> "mipro", save |-> "old"]}

\* the --history-bytes of the runs
OptHistoryBytes == 5

OptLocals ==
    [pc |-> "start", val |-> FALSE, optimizer |-> "", policy |-> "", read |-> <<>>,
     train |-> <<>>, dev |-> <<>>, lms |-> 0, optimizers |-> 0, compiles |-> 0,
     correct |-> 0, exit |-> 0, exc |-> "", stage |-> ""]

InitOptimize ==
    /\ IdleMerge
    /\ IdleFiles
    /\ IdleInit
    /\ IdleHook
    /\ IdleRace
    /\ IdleTail
    /\ IdlePolicy
    /\ \E f \in TrainFiles, a \in OptArgs :
         /\ opt = [OptLocals EXCEPT !.val = a.val, !.optimizer = a.optimizer]
         /\ optFiles = [train |-> f, val |-> ValFile, save |-> a.save, saveDir |-> FALSE,
                        before |-> a.save]

\* the run ends with an uncaught exception raised at the given stage
OptRaise(stage, exc) == [opt EXCEPT !.pc = "raised", !.stage = stage, !.exc = exc]

\* cli.py lines 122-136 and optimizer.py lines 107-108: the settings, the
\* directory of the save path, the language model and the policy text
StartOptimize ==
    /\ opt.pc = "start"
    /\ LET p == get_policy_text(SettingsA)
       IN opt' = IF p.exc # "" THEN OptRaise("policy", p.exc)
                 ELSE [opt EXCEPT !.pc = "configured", !.policy = p.text, !.lms = 1]
    /\ optFiles' = [optFiles EXCEPT !.saveDir = TRUE]
    /\ UNCHANGED <<mergeVars, fileVars, initVars, hookVars, raceVars, tailVars, policyVars>>

\* lines 109-111 without the test of line 110: the run goes on with an
\* empty training set
ReadTrain_NoCheck ==
    /\ opt.pc = "configured"
    /\ LET r == read_jsonl(optFiles.train, opt.policy, OptHistoryBytes, TailFiles)
       IN opt' = IF r.exc # "" THEN [OptRaise("train", r.exc) EXCEPT !.read = r.out]
                 ELSE [opt EXCEPT !.pc = "loaded", !.read = r.out, !.train = r.out]
    /\ UNCHANGED <<optFiles, mergeVars, fileVars, initVars, hookVars, raceVars, tailVars,
                   policyVars>>

\* optimizer.py lines 109-111: read the training file; sys.exit(1) when it
\* gave no example
ReadTrain ==
    /\ opt.pc = "configured"
    /\ LET r == read_jsonl(optFiles.train, opt.policy, OptHistoryBytes, TailFiles)
       IN opt' = IF r.exc # "" THEN [OptRaise("train", r.exc) EXCEPT !.read = r.out]
                 ELSE IF r.out = <<>> THEN [opt EXCEPT !.pc = "exited", !.exit = 1]
                 ELSE [opt EXCEPT !.pc = "loaded", !.read = r.out, !.train = r.out]
    /\ UNCHANGED <<optFiles, mergeVars, fileVars, initVars, hookVars, raceVars, tailVars,
                   policyVars>>

\* optimizer.py lines 112-114: the validation set is read from the
\* validation file, or split off the shuffled training set
PrepareDev ==
    /\ opt.pc = "loaded"
    /\ IF opt.val
       THEN LET r == read_jsonl(optFiles.val, opt.policy, OptHistoryBytes, TailFiles)
            IN opt' = IF r.exc # "" THEN OptRaise("val", r.exc)
                      ELSE [opt EXCEPT !.pc = "prepared", !.dev = r.out]
       ELSE LET sp == split(opt.train)
            IN opt' = [opt EXCEPT !.pc = "prepared", !.dev = sp.dev, !.train = sp.train]
    /\ UNCHANGED <<optFiles, mergeVars, fileVars, initVars, hookVars, raceVars, tailVars,
                   policyVars>>

\* optimizer.py lines 116-143: the program, the optimizer (for gepa with a
\* reflection model) and tp.compile, which returns a program or raises
Compile ==
    /\ opt.pc = "prepared"
    /\ \E ok \in BOOLEAN :
         LET made == [opt EXCEPT !.optimizers = @ + 1,
                                 !.lms = IF opt.optimizer = "gepa" THEN @ + 1 ELSE @]
         IN opt' = IF ok THEN [made EXCEPT !.pc = "compiled", !.compiles = @ + 1]
                   ELSE [made EXCEPT !.pc = "raised", !.stage = "compile", !.exc = "RuntimeError"]
    /\ UNCHANGED <<optFiles, mergeVars, fileVars, initVars, hookVars, raceVars, tailVars,
                   policyVars>>

\* optimizer.py lines 145-153 and cli.py lines 144-146: the compiled program
\* is run on the validation set and saved
EvaluateAndSave ==
    /\ opt.pc = "compiled"
    /\ \E correct \in {0, Len(opt.dev)} :
         opt' = [opt EXCEPT !.pc = "done", !.correct = correct]
    /\ optFiles' = [optFiles EXCEPT !.save = "compiled"]
    /\ UNCHANGED <<mergeVars, fileVars, initVars, hookVars, raceVars, tailVars, policyVars>>

NextOptimize ==
    \/ StartOptimize
    \/ ReadTrain
    \/ PrepareDev
    \/ Compile
    \/ EvaluateAndSave

SpecOptimize == InitOptimize /\ [][NextOptimize]_vars

\* -------------------------------------------- SpecOptimize: properties

\* the label of a record as the loader takes it: 'label', else 'decision'
RawLabel(obj) == FirstTruthy(Get(obj, "label", Null), Get(obj, "decision", Null))

\* the line is a JSON record whose label, trimmed and lower-cased, is one of
\* allow, deny, ask
UsableRecord(x) ==
    /\ x.kind = "json"
    /\ IsDict(x.val)
    /\ IsStr(RawLabel(x.val))
    /\ Lower(Strip(Spell[RawLabel(x.val).s])) \in {Allow, Deny, Ask}

\* the numbers of the usable lines of a file, in file order
RECURSIVE UsableFrom(_, _)
UsableFrom(lines, i) ==
    IF i > Len(lines) THEN <<>>
    ELSE (IF UsableRecord(lines[i]) THEN <<i>> ELSE <<>>) \o UsableFrom(lines, i + 1)

\* the training file has been read (or the reading has raised)
TrainRead == opt.pc \notin {"start", "configured"} /\ opt.stage # "policy"

\* the examples are those of the usable lines of the file, in file order,
\* each with the normalized label of its line
ExamplesAsClaimed(examples, lines) ==
    LET want == UsableFrom(lines, 1)
    IN /\ Len(examples) = Len(want)
       /\ \A i \in 1..Len(want) :
            /\ examples[i].line = want[i]
            /\ examples[i].decision = Lower(Strip(Spell[RawLabel(lines[want[i]].val).s]))

\* C24 (as claimed): on a training file that can be read, read_jsonl does
\* not raise whatever the lines hold; it returns, in file order, one example
\* for each line that is a JSON record with a label among allow, deny, ask
\* (from 'label', else 'decision', trimmed and lower-cased) and passes over
\* every other line: blank, no JSON, no record, label absent or unknown.
C24_ReadNeverRaises ==
    (TrainRead /\ optFiles.train.st = "ok") =>
        /\ opt.stage # "train"
        /\ ExamplesAsClaimed(opt.read, optFiles.train.lines)

\* a line on which the loader raises: JSON that is no record, or a record
\* whose label is no string
RaisingLine(x) ==
    /\ x.kind = "json"
    /\ \/ ~IsDict(x.val)
       \/ IsDict(x.val) /\ ~IsStr(RawLabel(x.val))

\* the part of C24 that the code keeps: a file none of whose lines is JSON
\* that is no record or a record with a label that is no string is read
\* without an exception and gives the examples of its usable lines in file
\* order; a file with such a line ends the read with AttributeError
C24_SkipsUnlessNoRecord ==
    (TrainRead /\ optFiles.train.st = "ok") =>
        LET lines == optFiles.train.lines
        IN IF \E i \in 1..Len(lines) : RaisingLine(lines[i])
           THEN opt.pc = "raised" /\ opt.stage = "train" /\ opt.exc = "AttributeError"
           ELSE opt.stage # "train" /\ ExamplesAsClaimed(opt.read, lines)

\* the training file gives no usable example
NoUsableExample ==
    \/ optFiles.train.st # "ok"
    \/ UsableFrom(optFiles.train.lines, 1) = <<>>

\* C26: when the training file gives no usable example, the run ends as an
\* error, by exit status 1 or by an exception, before an optimizer is made
\* or a program compiled, and what is at the save path is what was there
\* before the run.
C26_EmptyTrainingSurfaced ==
    NoUsableExample =>
        /\ opt.optimizers = 0
        /\ opt.compiles = 0
        /\ optFiles.save = optFiles.before
        /\ TrainRead => \/ opt.pc = "exited" /\ opt.exit = 1
                        \/ opt.pc = "raised"

\* a run on a file of a blank line and a record with an unknown label has
\* ended with exit status 1
C26_Witness ==
    /\ opt.pc = "exited"
    /\ opt.exit = 1
    /\ Len(optFiles.train.lines) = 2
    /\ optFiles.train.lines[1] = Blank
    /\ optFiles.train.lines[2].kind = "json"
    /\ optFiles.save = optFiles.before

\* the line numbers of a sequence of examples
LinesOf(examples) == {examples[i].line : i \in 1..Len(examples)}

\* C29: in a run without a validation file on n >= 1 loaded examples the
\* validation set has max(1, floor(0.2 * n)) examples and the training set
\* the other n - max(1, floor(0.2 * n)); no example is in both sets and each
\* loaded example is in one of them; 10 examples give 8 for training and 2
\* for validation.
C29_ValidationSplit ==
    (~opt.val /\ opt.pc \in {"prepared", "compiled", "done"}) =>
        LET n == Len(opt.read)
            fifth == CHOOSE k \in 0..n : 5 * k <= n /\ n < 5 * (k + 1)
            want == IF fifth >= 1 THEN fifth ELSE 1
        IN /\ n >= 1
           /\ Len(opt.dev) = want
           /\ Len(opt.train) = n - want
           /\ LinesOf(opt.dev) \cap LinesOf(opt.train) = {}
           /\ Cardinality(LinesOf(opt.dev)) = Len(opt.dev)
           /\ Cardinality(LinesOf(opt.train)) = Len(opt.train)
           /\ LinesOf(opt.dev) \cup LinesOf(opt.train) = LinesOf(opt.read)
           /\ \A i \in 1..Len(opt.dev) : \E j \in 1..n : opt.dev[i] = opt.read[j]
           /\ \A i \in 1..Len(opt.train) : \E j \in 1..n : opt.train[i] = opt.read[j]
           /\ n = 10 => Len(opt.train) = 8 /\ Len(opt.dev) = 2

\* a run on 10 loaded examples has split them 8 to 2, and the validation
\* set is not the first two lines of the file
C29_Witness ==
    /\ ~opt.val
    /\ opt.pc = "prepared"
    /\ Len(opt.read) = 10
    /\ Len(opt.train) = 8
    /\ Len(opt.dev) = 2
    /\ LinesOf(opt.dev) # {1, 2}

\* ---------------------------------------------------------- SpecPolicy
\* The layered policy resolution of hook.py (lines 29 and 43) applied to
\* every pair of a user-global and a project configuration.

PolicyCfg(fields) == Dict([policy |-> Dict(fields)])

\* the user-global configuration: absent, without policy, with empty text,
\* or with its text under globalInstructions, approverInstructions or both
GlobalConfigs ==
    {Null, Dict(EmptyMap),
     PolicyCfg([approverInstructions |-> Str("")]),
     PolicyCfg([approverInstructions |-> Str("deny rm")]),
     PolicyCfg([globalInstructions |-> Str("deny rm")]),
     PolicyCfg([globalInstructions |-> Str("deny rm"), approverInstructions |-> Str("old rules")])}

Strategies == {"append", "prepend", "replace"}

\* the project configuration: as the global one with localInstructions, and
\* with each mergeStrategy or none
LocalConfigs ==
    {Null, Dict(EmptyMap)}
    \cup {PolicyCfg(f) :
            f \in {EmptyMap,
                   [approverInstructions |-> Str("")],
                   [approverInstructions |-> Str("allow git")],
                   [localInstructions |-> Str("allow git")],
                   [localInstructions |-> Str("allow git"),
                    approverInstructions |-> Str("old rules")]}}
    \cup {PolicyCfg([k \in DOMAIN f \cup {"mergeStrategy"} |->
                       IF k = "mergeStrategy" THEN Str(st) ELSE f[k]]) :
            f \in {EmptyMap,
                   [approverInstructions |-> Str("")],
                   [approverInstructions |-> Str("allow git")],
                   [localInstructions |-> Str("allow git")],
                   [localInstructions |-> Str("allow git"),
                    approverInstructions |-> Str("old rules")]},
            st \in Strategies}

InitPolicy ==
    /\ IdleMerge
    /\ IdleFiles
    /\ IdleInit
    /\ IdleHook
    /\ IdleRace
    /\ IdleTail
    /\ IdleOptimize
    /\ \E g \in GlobalConfigs, l \in LocalConfigs :
         merged = [global |-> g, local |-> l, done |-> FALSE, policy |-> <<>>]

\* hook.py line 43: policy = get_merged_policy(settings)
ResolvePolicy ==
    /\ ~merged.done
    /\ merged' = [merged EXCEPT !.done = TRUE,
                                !.policy = get_merged_policy(merged.global, merged.local)]
    /\ UNCHANGED <<mergeVars, fileVars, initVars, hookVars, raceVars, tailVars, optVars>>

NextPolicy == ResolvePolicy

SpecPolicy == InitPolicy /\ [][NextPolicy]_vars

\* ------------------------------------------------ SpecPolicy: properties

\* the first position at which needle occurs in hay, 0 when it does not
IndexOf(hay, needle) ==
    LET at == {i \in 1..(Len(hay) - Len(needle) + 1) :
                 SubSeq(hay, i, i + Len(needle) - 1) = needle}
    IN IF at = {} THEN 0 ELSE Min(at)

\* a occurs in text and b occurs after the end of that occurrence
Before(text, a, b) ==
    /\ IndexOf(text, a) > 0
    /\ \E i \in (IndexOf(text, a) + Len(a))..Len(text) :
         i + Len(b) - 1 <= Len(text) /\ SubSeq(text, i, i + Len(b) - 1) = b

\* the texts of the two sides, as the claims name them
GlobalText == InstructionsOf(merged.global, "globalInstructions")
LocalText == InstructionsOf(merged.local, "localInstructions")

\* C27: with a global policy G and a local policy L that are both not empty,
\* the merged text follows the mergeStrategy of the local configuration:
\* append, and no strategy at all, give a text with the header of the global
\* rules, G, the header of the project rules and L in this order; prepend
\* gives a text with L before G; replace gives L and nothing else, G not
\* being part of it.
C27_MergeByStrategy ==
    (merged.done /\ GlobalText # <<>> /\ LocalText # <<>>) =>
        LET text == merged.policy
            strategy == StrategyOf(merged.local)
        IN CASE strategy = "append" ->
                  /\ Before(text, GlobalText, LocalText)
                  /\ Before(text, GlobalHeader, GlobalText)
                  /\ Before(text, GlobalText, ProjectHeader)
                  /\ Before(text, ProjectHeader, LocalText)
             [] strategy = "prepend" ->
                  /\ Before(text, LocalText, GlobalText)
                  /\ ~Before(text, GlobalText, LocalText)
             [] strategy = "replace" ->
                  /\ text = LocalText
                  /\ ~Contains(text, GlobalText)

\* the two sides were merged with prepend, the local text coming first
C27_Witness ==
    /\ merged.done
    /\ GlobalText = Spell["deny rm"]
    /\ LocalText = Spell["allow git"]
    /\ StrategyOf(merged.local) = "prepend"
    /\ IndexOf(merged.policy, LocalText) < IndexOf(merged.policy, GlobalText)

====
